---------------------------- MODULE Spec2Model ----------------------------
(***************************************************************************)
(* AgroForgeSIM: the daily field simulation (backend/engine/sim.py), the   *)
(* yield / harvest-date estimator (backend/engine/harvest.py) and the crop *)
(* lookup (backend/engine/params.py), as a state machine.                  *)
(*                                                                         *)
(* Numbers.  The program computes in floating point.  Here every real      *)
(* quantity x is held as the integer floor(x * SC), SC = 1000 (mm, degC,   *)
(* kg/ha, ratios ... in thousandths); a product of two such numbers is     *)
(* divided by SC again, rounding towards minus infinity.  The 1e-6 guard   *)
(* of the two stress ratios is one millionth, i.e. 1/SC of a thousandth,   *)
(* and is kept exactly by RatioEps.  yield_t_ha is held in millionths of   *)
(* a tonne per hectare (biomass in thousandths of a kg, times hi, /1000).  *)
(* Dates are the integers YYYYMMDD, whose order is that of the ISO date    *)
(* strings; an hourly time stamp is YYYYMMDDHH.  Python's None is None.    *)
(* Text (crop names as typed by the caller) is a sequence of characters.   *)
(***************************************************************************)
EXTENDS Integers, Sequences, FiniteSets, TLC

\* the scale of the fixed-point numbers: thousandths
SC == 10 ^ 3

\* Python's None, where a number may be absent
None == -1

Max(a, b) == IF a >= b THEN a ELSE b

Min(a, b) == IF a <= b THEN a ELSE b

\* x * y for two scaled numbers
Mul(x, y) == (x * y) \div SC

RECURSIVE SumSeq(_)
SumSeq(s) == IF s = <<>> THEN 0 ELSE Head(s) + SumSeq(Tail(s))

RECURSIVE MinSeq(_)
MinSeq(s) == IF Len(s) = 1 THEN Head(s) ELSE Min(Head(s), MinSeq(Tail(s)))

\* floor(SC * n / d) by long division, one decimal digit at a time, so that
\* no intermediate value leaves the 32-bit integers
DivSC(n, d) ==
  LET q0 == n \div d
      r0 == n % d
      d1 == (r0 * 10) \div d
      r1 == (r0 * 10) % d
      d2 == (r1 * 10) \div d
      r2 == (r1 * 10) % d
      d3 == (r2 * 10) \div d
  IN  q0 * SC + d1 * 100 + d2 * 10 + d3

\* (a + 1e-6) / (b + 1e-6): the guarded ratio of sim.py lines 247 and 267
RatioEps(a, b) == DivSC(a * SC + 1, b * SC + 1)

\* math.exp on scaled numbers: the power series of e^x for x >= 0, summed
\* until a term vanishes; e^(-x) = 1 / e^x
RECURSIVE ExpSeries(_, _, _)
ExpSeries(x, k, term) ==
  IF term = 0 THEN 0 ELSE term + ExpSeries(x, k + 1, (term * x) \div (SC * (k + 1)))

exp(x) == IF x >= 0 THEN ExpSeries(x, 0, SC) ELSE (SC * SC) \div ExpSeries(-x, 0, SC)

(***************************************************************************)
(* engine/models.py: the records                                           *)
(***************************************************************************)
\* nuptake_target of the catalog stages: a dict with keys N, P, K in this order
NPK(n, p, k) == << <<"N", n>>, <<"P", p>>, <<"K", k>> >>

StageParams(name, gdd_target, dap_target, kc, rue, lai_gain, nuptake_target) ==
  [name |-> name, gdd_target |-> gdd_target, dap_target |-> dap_target,
   kc |-> kc, rue |-> rue, lai_gain |-> lai_gain, nuptake_target |-> nuptake_target]

rootzone_capacity(soil) ==
  SumSeq([i \in 1..Len(soil.layers) |-> Max(0, soil.layers[i].fc)])

(***************************************************************************)
(* engine/params.py: the crop defaults, value for value                    *)
(***************************************************************************)
maize_defaults ==
  [species |-> "maize", tb |-> 8000, lai_max |-> 5000, hi |-> 480,
   stress_sensitivity |-> [flower_water |-> 600, grainfill_water |-> 400, n |-> 500],
   stages |-> <<
     StageParams("incubation", 80000, None, 350, 800, 100, NPK(15000, 5000, 10000)),
     StageParams("vegetative", 650000, None, 1050, 1600, 160, NPK(80000, 20000, 60000)),
     StageParams("flowering", 850000, None, 1200, 1700, 100, NPK(40000, 10000, 30000)),
     StageParams("grainfill", 1200000, None, 950, 1400, 60, NPK(20000, 5000, 15000)),
     StageParams("maturity", None, None, 600, 500, 0, NPK(0, 0, 0))
   >>]

rice_defaults ==
  [species |-> "rice", tb |-> 10000, lai_max |-> 6000, hi |-> 500,
   stress_sensitivity |-> [flower_water |-> 700, grainfill_water |-> 500, n |-> 450],
   stages |-> <<
     StageParams("nursery", None, 20, 1000, 1500, 100, NPK(25000, 10000, 25000)),
     StageParams("vegetative", None, 60, 1100, 1800, 150, NPK(60000, 20000, 50000)),
     StageParams("flowering", None, 90, 1200, 1900, 80, NPK(30000, 10000, 30000)),
     StageParams("grainfill", None, 120, 1100, 1500, 60, NPK(20000, 6000, 25000)),
     StageParams("maturity", None, None, 800, 900, 0, NPK(0, 0, 0))
   >>]

sorghum_defaults ==
  [species |-> "sorghum", tb |-> 8000, lai_max |-> 4500, hi |-> 450,
   stress_sensitivity |-> [flower_water |-> 600, grainfill_water |-> 400, n |-> 500],
   stages |-> <<
     StageParams("emergence", None, 10, 400, 1000, 80, NPK(10000, 4000, 15000)),
     StageParams("vegetative", None, 45, 1050, 1600, 150, NPK(50000, 15000, 40000)),
     StageParams("flowering", None, 75, 1200, 1700, 80, NPK(30000, 8000, 30000)),
     StageParams("grainfill", None, 105, 1000, 1400, 50, NPK(15000, 5000, 20000)),
     StageParams("maturity", None, None, 850, 800, 0, NPK(0, 0, 0))
   >>]

cassava_defaults ==
  [species |-> "cassava", tb |-> 12000, lai_max |-> 4000, hi |-> 550,
   stress_sensitivity |-> [flower_water |-> 300, grainfill_water |-> 300, n |-> 400],
   stages |-> <<
     StageParams("incubation", None, 15, 400, 900, 90, NPK(10000, 5000, 15000)),
     StageParams("vegetative", None, 120, 1000, 1500, 140, NPK(60000, 20000, 80000)),
     StageParams("bulking", None, 300, 1050, 1400, 80, NPK(30000, 10000, 60000)),
     StageParams("maturity", None, 360, 900, 1000, 20, NPK(10000, 5000, 20000))
   >>]

yams_defaults ==
  [species |-> "yam", tb |-> 12000, lai_max |-> 4500, hi |-> 600,
   stress_sensitivity |-> [flower_water |-> 400, grainfill_water |-> 300, n |-> 400],
   stages |-> <<
     StageParams("sprouting", None, 20, 500, 1000, 80, NPK(15000, 6000, 20000)),
     StageParams("vegetative", None, 100, 1000, 1600, 140, NPK(70000, 25000, 60000)),
     StageParams("tuberization", None, 240, 1050, 1400, 80, NPK(35000, 12000, 50000)),
     StageParams("maturity", None, 300, 900, 1000, 20, NPK(10000, 4000, 15000))
   >>]

tomato_defaults ==
  [species |-> "tomato", tb |-> 10000, lai_max |-> 4500, hi |-> 650,
   stress_sensitivity |-> [flower_water |-> 600, grainfill_water |-> 500, n |-> 500],
   stages |-> <<
     StageParams("incubation", 80000, None, 500, 1200, 100, NPK(20000, 8000, 18000)),
     StageParams("vegetative", 400000, None, 1050, 1600, 160, NPK(60000, 20000, 60000)),
     StageParams("flowering", 600000, None, 1150, 1700, 100, NPK(30000, 10000, 40000)),
     StageParams("fruitfill", 900000, None, 1150, 1500, 60, NPK(20000, 8000, 50000)),
     StageParams("maturity", None, None, 900, 800, 0, NPK(0, 0, 0))
   >>]

pepper_defaults ==
  [species |-> "pepper", tb |-> 10000, lai_max |-> 4000, hi |-> 600,
   stress_sensitivity |-> [flower_water |-> 550, grainfill_water |-> 450, n |-> 450],
   stages |-> <<
     StageParams("incubation", 90000, None, 500, 1100, 90, NPK(18000, 7000, 16000)),
     StageParams("vegetative", 420000, None, 1000, 1500, 150, NPK(55000, 18000, 55000)),
     StageParams("flowering", 620000, None, 1100, 1600, 100, NPK(25000, 9000, 35000)),
     StageParams("fruitfill", 950000, None, 1100, 1400, 60, NPK(18000, 7000, 40000)),
     StageParams("maturity", None, None, 900, 800, 0, NPK(0, 0, 0))
   >>]

onion_defaults ==
  [species |-> "onion", tb |-> 5000, lai_max |-> 3000, hi |-> 750,
   stress_sensitivity |-> [flower_water |-> 500, grainfill_water |-> 500, n |-> 400],
   stages |-> <<
     StageParams("incubation", 60000, None, 450, 1000, 80, NPK(15000, 6000, 18000)),
     StageParams("leaf", 300000, None, 950, 1400, 140, NPK(50000, 15000, 50000)),
     StageParams("bulbinit", 450000, None, 1050, 1400, 100, NPK(25000, 8000, 35000)),
     StageParams("bulbing", 700000, None, 1050, 1200, 60, NPK(15000, 5000, 30000)),
     StageParams("maturity", None, None, 850, 700, 0, NPK(0, 0, 0))
   >>]

garlic_defaults ==
  [species |-> "garlic", tb |-> 3000, lai_max |-> 2800, hi |-> 720,
   stress_sensitivity |-> [flower_water |-> 450, grainfill_water |-> 450, n |-> 350],
   stages |-> <<
     StageParams("incubation", 40000, None, 450, 900, 70, NPK(12000, 5000, 15000)),
     StageParams("leaf", 250000, None, 950, 1300, 120, NPK(40000, 12000, 45000)),
     StageParams("bulb", 520000, None, 1000, 1100, 60, NPK(18000, 6000, 28000)),
     StageParams("maturity", None, None, 800, 700, 0, NPK(0, 0, 0))
   >>]

carrot_defaults ==
  [species |-> "carrot", tb |-> 4000, lai_max |-> 3500, hi |-> 800,
   stress_sensitivity |-> [flower_water |-> 400, grainfill_water |-> 400, n |-> 350],
   stages |-> <<
     StageParams("incubation", 50000, None, 450, 1000, 80, NPK(10000, 4000, 15000)),
     StageParams("vegetative", 300000, None, 950, 1400, 140, NPK(40000, 12000, 50000)),
     StageParams("bulking", 650000, None, 1000, 1200, 70, NPK(20000, 6000, 35000)),
     StageParams("maturity", None, None, 850, 700, 0, NPK(0, 0, 0))
   >>]

spinach_defaults ==
  [species |-> "spinach", tb |-> 5000, lai_max |-> 3000, hi |-> 750,
   stress_sensitivity |-> [flower_water |-> 500, grainfill_water |-> 400, n |-> 300],
   stages |-> <<
     StageParams("germination", None, 10, 500, 900, 80, NPK(10000, 4000, 12000)),
     StageParams("vegetative", None, 30, 1100, 1200, 140, NPK(25000, 10000, 30000)),
     StageParams("harvest", None, 45, 900, 1000, 20, NPK(0, 0, 0))
   >>]

cucumber_defaults ==
  [species |-> "cucumber", tb |-> 8000, lai_max |-> 4000, hi |-> 700,
   stress_sensitivity |-> [flower_water |-> 600, grainfill_water |-> 500, n |-> 400],
   stages |-> <<
     StageParams("incubation", 50000, None, 500, 1000, 100, NPK(15000, 6000, 15000)),
     StageParams("vegetative", 200000, None, 1000, 1400, 140, NPK(40000, 12000, 40000)),
     StageParams("flowering", 300000, None, 1100, 1600, 100, NPK(20000, 7000, 25000)),
     StageParams("fruitfill", 450000, None, 1100, 1500, 60, NPK(15000, 5000, 30000)),
     StageParams("maturity", None, None, 900, 800, 0, NPK(0, 0, 0))
   >>]

broccoli_defaults ==
  [species |-> "broccoli", tb |-> 7000, lai_max |-> 3500, hi |-> 650,
   stress_sensitivity |-> [flower_water |-> 500, grainfill_water |-> 450, n |-> 350],
   stages |-> <<
     StageParams("incubation", 60000, None, 450, 1000, 80, NPK(15000, 6000, 20000)),
     StageParams("vegetative", 200000, None, 950, 1300, 140, NPK(40000, 12000, 40000)),
     StageParams("head formation", 300000, None, 1100, 1500, 100, NPK(30000, 8000, 30000)),
     StageParams("maturity", None, None, 900, 800, 0, NPK(0, 0, 0))
   >>]

okra_defaults ==
  [species |-> "okra", tb |-> 10000, lai_max |-> 4000, hi |-> 650,
   stress_sensitivity |-> [flower_water |-> 600, grainfill_water |-> 500, n |-> 400],
   stages |-> <<
     StageParams("incubation", None, 10, 500, 1000, 100, NPK(15000, 5000, 20000)),
     StageParams("vegetative", None, 60, 1000, 1400, 140, NPK(35000, 10000, 35000)),
     StageParams("flowering", None, 100, 1100, 1500, 80, NPK(20000, 6000, 25000)),
     StageParams("maturity", None, None, 900, 800, 0, NPK(0, 0, 0))
   >>]

cabbage_defaults ==
  [species |-> "cabbage", tb |-> 7000, lai_max |-> 3000, hi |-> 700,
   stress_sensitivity |-> [flower_water |-> 500, grainfill_water |-> 450, n |-> 350],
   stages |-> <<
     StageParams("incubation", 50000, None, 400, 900, 80, NPK(12000, 5000, 18000)),
     StageParams("vegetative", 180000, None, 950, 1300, 140, NPK(30000, 10000, 30000)),
     StageParams("heading", 300000, None, 1000, 1400, 100, NPK(20000, 7000, 25000)),
     StageParams("maturity", None, None, 900, 800, 0, NPK(0, 0, 0))
   >>]

amaranth_defaults ==
  [species |-> "amaranth", tb |-> 10000, lai_max |-> 3500, hi |-> 750,
   stress_sensitivity |-> [flower_water |-> 600, grainfill_water |-> 500, n |-> 400],
   stages |-> <<
     StageParams("germination", None, 8, 500, 900, 80, NPK(10000, 4000, 12000)),
     StageParams("vegetative", None, 30, 1000, 1300, 140, NPK(25000, 8000, 30000)),
     StageParams("maturity", None, None, 900, 800, 0, NPK(0, 0, 0))
   >>]

mango_defaults ==
  [species |-> "mango", tb |-> 12000, lai_max |-> 5000, hi |-> 500,
   stress_sensitivity |-> [flower_water |-> 700, grainfill_water |-> 600, n |-> 400],
   stages |-> <<
     StageParams("budbreak", None, 20, 700, 1200, 30, NPK(20000, 6000, 25000)),
     StageParams("flowering", None, 50, 800, 1300, 40, NPK(20000, 7000, 25000)),
     StageParams("fruitset", None, 120, 950, 1400, 50, NPK(30000, 10000, 40000)),
     StageParams("enlargement", None, 240, 1050, 1300, 50, NPK(25000, 8000, 45000)),
     StageParams("maturation", None, 300, 950, 1000, 20, NPK(10000, 4000, 20000))
   >>]

apple_defaults ==
  [species |-> "apple", tb |-> 6000, lai_max |-> 4500, hi |-> 600,
   stress_sensitivity |-> [flower_water |-> 750, grainfill_water |-> 550, n |-> 400],
   stages |-> <<
     StageParams("budbreak", None, 20, 700, 1200, 30, NPK(22000, 6000, 22000)),
     StageParams("flowering", None, 45, 800, 1250, 40, NPK(18000, 6000, 20000)),
     StageParams("fruitset", None, 110, 950, 1350, 50, NPK(28000, 9000, 35000)),
     StageParams("enlargement", None, 220, 1000, 1250, 50, NPK(22000, 7000, 38000)),
     StageParams("maturation", None, 280, 900, 1000, 20, NPK(8000, 3000, 15000))
   >>]

orange_defaults ==
  [species |-> "orange", tb |-> 8000, lai_max |-> 5000, hi |-> 550,
   stress_sensitivity |-> [flower_water |-> 700, grainfill_water |-> 500, n |-> 400],
   stages |-> <<
     StageParams("budbreak", None, 20, 700, 1200, 30, NPK(20000, 6000, 25000)),
     StageParams("flowering", None, 50, 800, 1300, 40, NPK(20000, 7000, 25000)),
     StageParams("fruitset", None, 120, 950, 1400, 50, NPK(30000, 10000, 40000)),
     StageParams("enlargement", None, 240, 1050, 1300, 50, NPK(25000, 8000, 45000)),
     StageParams("maturation", None, 300, 950, 1000, 20, NPK(10000, 4000, 20000))
   >>]

banana_defaults ==
  [species |-> "banana", tb |-> 12000, lai_max |-> 6000, hi |-> 500,
   stress_sensitivity |-> [flower_water |-> 700, grainfill_water |-> 600, n |-> 400],
   stages |-> <<
     StageParams("vegetative", None, 120, 1000, 1500, 50, NPK(30000, 10000, 35000)),
     StageParams("fruiting", None, 240, 1100, 1400, 30, NPK(25000, 8000, 30000)),
     StageParams("maturity", None, None, 900, 900, 0, NPK(0, 0, 0))
   >>]

pineapple_defaults ==
  [species |-> "pineapple", tb |-> 10000, lai_max |-> 4000, hi |-> 550,
   stress_sensitivity |-> [flower_water |-> 650, grainfill_water |-> 500, n |-> 350],
   stages |-> <<
     StageParams("veg_growth", None, 200, 900, 1300, 40, NPK(20000, 6000, 25000)),
     StageParams("fruit_growth", None, 300, 1000, 1200, 30, NPK(15000, 5000, 20000)),
     StageParams("maturity", None, None, 850, 800, 0, NPK(0, 0, 0))
   >>]

guava_defaults ==
  [species |-> "guava", tb |-> 10000, lai_max |-> 4500, hi |-> 600,
   stress_sensitivity |-> [flower_water |-> 700, grainfill_water |-> 550, n |-> 400],
   stages |-> <<
     StageParams("flowering", None, 30, 800, 1300, 50, NPK(15000, 5000, 20000)),
     StageParams("fruit_growth", None, 90, 900, 1400, 40, NPK(20000, 7000, 25000)),
     StageParams("maturity", None, None, 900, 900, 0, NPK(0, 0, 0))
   >>]

papaya_defaults ==
  [species |-> "papaya", tb |-> 8000, lai_max |-> 4500, hi |-> 650,
   stress_sensitivity |-> [flower_water |-> 600, grainfill_water |-> 500, n |-> 400],
   stages |-> <<
     StageParams("vegetative", None, 100, 900, 1300, 40, NPK(20000, 6000, 25000)),
     StageParams("fruiting", None, 200, 1000, 1200, 30, NPK(15000, 5000, 20000)),
     StageParams("maturity", None, None, 850, 800, 0, NPK(0, 0, 0))
   >>]

lemon_defaults ==
  [species |-> "lemon", tb |-> 10000, lai_max |-> 4000, hi |-> 600,
   stress_sensitivity |-> [flower_water |-> 700, grainfill_water |-> 550, n |-> 400],
   stages |-> <<
     StageParams("flowering", None, 30, 800, 1300, 50, NPK(15000, 5000, 20000)),
     StageParams("fruit_growth", None, 90, 900, 1400, 40, NPK(20000, 7000, 25000)),
     StageParams("maturity", None, None, 900, 900, 0, NPK(0, 0, 0))
   >>]

grapes_defaults ==
  [species |-> "grapes", tb |-> 8000, lai_max |-> 5000, hi |-> 600,
   stress_sensitivity |-> [flower_water |-> 700, grainfill_water |-> 500, n |-> 400],
   stages |-> <<
     StageParams("budburst", None, 20, 700, 1200, 30, NPK(20000, 6000, 25000)),
     StageParams("flowering", None, 50, 800, 1300, 40, NPK(20000, 7000, 25000)),
     StageParams("veraison", None, 100, 950, 1400, 50, NPK(30000, 10000, 40000)),
     StageParams("ripening", None, 150, 900, 1000, 20, NPK(10000, 4000, 20000)),
     StageParams("maturity", None, None, 850, 800, 0, NPK(0, 0, 0))
   >>]

beans_defaults ==
  [species |-> "beans", tb |-> 10000, lai_max |-> 3500, hi |-> 600,
   stress_sensitivity |-> [flower_water |-> 600, grainfill_water |-> 500, n |-> 400],
   stages |-> <<
     StageParams("germination", None, 7, 500, 1000, 100, NPK(10000, 4000, 12000)),
     StageParams("vegetative", None, 30, 1000, 1400, 140, NPK(25000, 8000, 30000)),
     StageParams("flowering", None, 45, 1100, 1500, 100, NPK(20000, 6000, 25000)),
     StageParams("maturity", None, None, 900, 800, 0, NPK(0, 0, 0))
   >>]

cowpea_defaults ==
  [species |-> "cowpea", tb |-> 10000, lai_max |-> 3000, hi |-> 650,
   stress_sensitivity |-> [flower_water |-> 600, grainfill_water |-> 500, n |-> 450],
   stages |-> <<
     StageParams("germination", None, 7, 500, 1000, 90, NPK(10000, 4000, 12000)),
     StageParams("vegetative", None, 25, 1000, 1300, 130, NPK(20000, 7000, 25000)),
     StageParams("flowering", None, 40, 1100, 1400, 80, NPK(15000, 6000, 20000)),
     StageParams("maturity", None, None, 900, 800, 0, NPK(0, 0, 0))
   >>]

chickpea_defaults ==
  [species |-> "chickpea", tb |-> 8000, lai_max |-> 3500, hi |-> 650,
   stress_sensitivity |-> [flower_water |-> 600, grainfill_water |-> 500, n |-> 450],
   stages |-> <<
     StageParams("germination", None, 8, 500, 1000, 90, NPK(10000, 4000, 12000)),
     StageParams("vegetative", None, 30, 1000, 1300, 130, NPK(25000, 8000, 25000)),
     StageParams("flowering", None, 45, 1100, 1400, 80, NPK(15000, 6000, 20000)),
     StageParams("maturity", None, None, 900, 800, 0, NPK(0, 0, 0))
   >>]

lentils_defaults ==
  [species |-> "lentils", tb |-> 6000, lai_max |-> 3000, hi |-> 700,
   stress_sensitivity |-> [flower_water |-> 500, grainfill_water |-> 500, n |-> 400],
   stages |-> <<
     StageParams("germination", None, 7, 500, 1000, 80, NPK(10000, 4000, 12000)),
     StageParams("vegetative", None, 25, 1000, 1300, 130, NPK(20000, 7000, 25000)),
     StageParams("flowering", None, 35, 1100, 1400, 80, NPK(15000, 6000, 20000)),
     StageParams("maturity", None, None, 900, 800, 0, NPK(0, 0, 0))
   >>]

fava_beans_defaults ==
  [species |-> "fava beans", tb |-> 8000, lai_max |-> 3500, hi |-> 650,
   stress_sensitivity |-> [flower_water |-> 600, grainfill_water |-> 500, n |-> 450],
   stages |-> <<
     StageParams("germination", None, 8, 500, 1000, 90, NPK(10000, 4000, 12000)),
     StageParams("vegetative", None, 30, 1000, 1300, 130, NPK(25000, 8000, 25000)),
     StageParams("flowering", None, 45, 1100, 1400, 80, NPK(15000, 6000, 20000)),
     StageParams("maturity", None, None, 900, 800, 0, NPK(0, 0, 0))
   >>]

mung_bean_defaults ==
  [species |-> "mung bean", tb |-> 10000, lai_max |-> 3000, hi |-> 700,
   stress_sensitivity |-> [flower_water |-> 600, grainfill_water |-> 500, n |-> 400],
   stages |-> <<
     StageParams("germination", None, 7, 500, 1000, 100, NPK(10000, 4000, 12000)),
     StageParams("vegetative", None, 25, 1000, 1300, 140, NPK(20000, 7000, 25000)),
     StageParams("flowering", None, 35, 1100, 1400, 80, NPK(15000, 6000, 20000)),
     StageParams("maturity", None, None, 900, 800, 0, NPK(0, 0, 0))
   >>]

\* crop_map of get_crop_defaults: catalog key (a string of characters) -> defaults
crop_map ==
  [k \in {
     <<"m", "a", "i", "z", "e">>,
     <<"r", "i", "c", "e">>,
     <<"s", "o", "r", "g", "h", "u", "m">>,
     <<"c", "a", "s", "s", "a", "v", "a">>,
     <<"y", "a", "m", "s">>,
     <<"t", "o", "m", "a", "t", "o">>,
     <<"p", "e", "p", "p", "e", "r">>,
     <<"o", "n", "i", "o", "n">>,
     <<"g", "a", "r", "l", "i", "c">>,
     <<"c", "a", "r", "r", "o", "t">>,
     <<"s", "p", "i", "n", "a", "c", "h">>,
     <<"c", "u", "c", "u", "m", "b", "e", "r">>,
     <<"b", "r", "o", "c", "c", "o", "l", "i">>,
     <<"o", "k", "r", "a">>,
     <<"c", "a", "b", "b", "a", "g", "e">>,
     <<"a", "m", "a", "r", "a", "n", "t", "h">>,
     <<"m", "a", "n", "g", "o">>,
     <<"a", "p", "p", "l", "e">>,
     <<"o", "r", "a", "n", "g", "e">>,
     <<"b", "a", "n", "a", "n", "a">>,
     <<"p", "i", "n", "e", "a", "p", "p", "l", "e">>,
     <<"g", "u", "a", "v", "a">>,
     <<"p", "a", "p", "a", "y", "a">>,
     <<"l", "e", "m", "o", "n">>,
     <<"g", "r", "a", "p", "e", "s">>,
     <<"b", "e", "a", "n", "s">>,
     <<"c", "o", "w", "p", "e", "a">>,
     <<"c", "h", "i", "c", "k", "p", "e", "a">>,
     <<"l", "e", "n", "t", "i", "l", "s">>,
     <<"f", "a", "v", "a", " ", "b", "e", "a", "n", "s">>,
     <<"m", "u", "n", "g", " ", "b", "e", "a", "n">>
   } |->
   CASE k = <<"m", "a", "i", "z", "e">> -> maize_defaults
     [] k = <<"r", "i", "c", "e">> -> rice_defaults
     [] k = <<"s", "o", "r", "g", "h", "u", "m">> -> sorghum_defaults
     [] k = <<"c", "a", "s", "s", "a", "v", "a">> -> cassava_defaults
     [] k = <<"y", "a", "m", "s">> -> yams_defaults
     [] k = <<"t", "o", "m", "a", "t", "o">> -> tomato_defaults
     [] k = <<"p", "e", "p", "p", "e", "r">> -> pepper_defaults
     [] k = <<"o", "n", "i", "o", "n">> -> onion_defaults
     [] k = <<"g", "a", "r", "l", "i", "c">> -> garlic_defaults
     [] k = <<"c", "a", "r", "r", "o", "t">> -> carrot_defaults
     [] k = <<"s", "p", "i", "n", "a", "c", "h">> -> spinach_defaults
     [] k = <<"c", "u", "c", "u", "m", "b", "e", "r">> -> cucumber_defaults
     [] k = <<"b", "r", "o", "c", "c", "o", "l", "i">> -> broccoli_defaults
     [] k = <<"o", "k", "r", "a">> -> okra_defaults
     [] k = <<"c", "a", "b", "b", "a", "g", "e">> -> cabbage_defaults
     [] k = <<"a", "m", "a", "r", "a", "n", "t", "h">> -> amaranth_defaults
     [] k = <<"m", "a", "n", "g", "o">> -> mango_defaults
     [] k = <<"a", "p", "p", "l", "e">> -> apple_defaults
     [] k = <<"o", "r", "a", "n", "g", "e">> -> orange_defaults
     [] k = <<"b", "a", "n", "a", "n", "a">> -> banana_defaults
     [] k = <<"p", "i", "n", "e", "a", "p", "p", "l", "e">> -> pineapple_defaults
     [] k = <<"g", "u", "a", "v", "a">> -> guava_defaults
     [] k = <<"p", "a", "p", "a", "y", "a">> -> papaya_defaults
     [] k = <<"l", "e", "m", "o", "n">> -> lemon_defaults
     [] k = <<"g", "r", "a", "p", "e", "s">> -> grapes_defaults
     [] k = <<"b", "e", "a", "n", "s">> -> beans_defaults
     [] k = <<"c", "o", "w", "p", "e", "a">> -> cowpea_defaults
     [] k = <<"c", "h", "i", "c", "k", "p", "e", "a">> -> chickpea_defaults
     [] k = <<"l", "e", "n", "t", "i", "l", "s">> -> lentils_defaults
     [] k = <<"f", "a", "v", "a", " ", "b", "e", "a", "n", "s">> -> fava_beans_defaults
     [] k = <<"m", "u", "n", "g", " ", "b", "e", "a", "n">> -> mung_bean_defaults]

(***************************************************************************)
(* engine/sim.py: basic physiological utilities                            *)
(***************************************************************************)
gdd_day(tmin, tmax, tb) == Max(0, ((tmin + tmax) \div 2) - tb)

etc_from_kc(et0, kc) == Max(0, Mul(et0, kc))

\* the stages up to and including the first one named current_stage_name
\* (all of them when no stage has that name)
RECURSIVE crop_stage_prefix(_, _)
crop_stage_prefix(current_stage_name, stages) ==
  IF stages = <<>> THEN <<>>
  ELSE IF Head(stages).name = current_stage_name THEN <<Head(stages)>>
  ELSE <<Head(stages)>> \o crop_stage_prefix(current_stage_name, Tail(stages))

(***************************************************************************)
(* engine/sim.py: stage, water and nutrient functions.  Each takes the     *)
(* FieldState st and gives the FieldState the Python function leaves.      *)
(***************************************************************************)
\* stage_index counts from 0 as in the program; sequences count from 1
StageAt(crop, stage_index) == crop.stages[stage_index + 1]

\* a variant that looks at the day-count target first
AdvanceCondDayCountFirst(st, stage) ==
  IF stage.dap_target # None THEN st.dap >= stage.dap_target
  ELSE IF stage.gdd_target # None THEN st.gdd_accum >= stage.gdd_target
  ELSE FALSE

\* _advance_stage, lines 222-226: cond
AdvanceCond(st, stage) ==
  IF stage.gdd_target # None THEN st.gdd_accum >= stage.gdd_target
  ELSE IF stage.dap_target # None THEN st.dap >= stage.dap_target
  ELSE FALSE

\* a variant that keeps advancing while the next target is reached as well
RECURSIVE AdvanceThroughStages(_, _)
AdvanceThroughStages(st, crop) ==
  IF AdvanceCond(st, StageAt(crop, st.stage_index)) /\ st.stage_index < Len(crop.stages) - 1
  THEN AdvanceThroughStages([st EXCEPT !.stage_index = st.stage_index + 1], crop)
  ELSE st

_advance_stage(st, crop) ==
  LET stage == StageAt(crop, st.stage_index)
  IN  IF AdvanceCond(st, stage) /\ st.stage_index < Len(crop.stages) - 1
      THEN [st EXCEPT !.stage_index = st.stage_index + 1]
      ELSE st

\* a variant without the 0.001 floor
WaterStressNoFloor(transp_act, transp_pot) == Min(SC, RatioEps(transp_act, transp_pot))

\* max(0.001, min(1.0, (transp_act + 1e-6) / (transp_pot + 1e-6)))
WaterStress(transp_act, transp_pot) ==
  Max(1, Min(SC, RatioEps(transp_act, transp_pot)))

\* a variant that does not cap the bucket at the root-zone capacity
RefillUnclamped(soil_water_mm, inflow_mm, runoff, capacity) ==
  soil_water_mm + (inflow_mm - runoff)

\* st.soil_water_mm += (inflow_mm - runoff), then min(..., rootzone_capacity)
Refill(soil_water_mm, inflow_mm, runoff, capacity) ==
  Min(soil_water_mm + (inflow_mm - runoff), capacity)

_water_balance(st, soil, inflow_mm, etc_pot) ==
  LET runoff     == (Max(0, inflow_mm - soil.runoff_threshold_mm) * 3) \div 10
      filled     == Refill(st.soil_water_mm, inflow_mm, runoff, rootzone_capacity(soil))
      cover      == Min(SC, st.lai \div 3)
      transp_pot == Mul(etc_pot, cover)
      transp_act == Min(transp_pot, filled)
      drained    == filled - transp_act
      soil_evap  == Min(Mul(Max(0, etc_pot - transp_act), SC - cover), drained)
  IN  [st EXCEPT !.soil_water_mm = drained - soil_evap,
                 !.stress_w = WaterStress(transp_act, transp_pot)]

NotesGet(notes, key) == IF key \in DOMAIN notes THEN notes[key] ELSE 0

NotesPut(notes, key, v) ==
  [x \in (DOMAIN notes) \cup {key} |-> IF x = key THEN v ELSE notes[x]]

\* the notes key f"{key}_taken_{stage.name}"
TakenKey(key, stage_name) == <<key, "taken", stage_name>>

\* getattr / setattr of f"{key.lower()}_stock_kg_ha"
StockGet(st, key) ==
  CASE key = "N" -> st.n_stock_kg_ha
    [] key = "P" -> st.p_stock_kg_ha
    [] key = "K" -> st.k_stock_kg_ha

StockPut(st, key, v) ==
  CASE key = "N" -> [st EXCEPT !.n_stock_kg_ha = v]
    [] key = "P" -> [st EXCEPT !.p_stock_kg_ha = v]
    [] key = "K" -> [st EXCEPT !.k_stock_kg_ha = v]

daily_uptake_cap == 8000

\* a variant that takes the daily cap whatever the stage still needs
TakeTheCap(needed, stress_w) == Mul(daily_uptake_cap, stress_w)

\* min(daily_uptake_cap, needed) * st.stress_w
Take(needed, stress_w) == Mul(Min(daily_uptake_cap, needed), stress_w)

\* a variant that books the day's uptake in place of the running total
UptakeBookingTheDay(st, stage, item) ==
  LET key          == item[1]
      target       == item[2]
      taken_so_far == NotesGet(st.notes, TakenKey(key, stage.name))
      needed       == Max(0, target - taken_so_far)
      take         == Take(needed, st.stress_w)
  IN  [StockPut(st, key, StockGet(st, key) + take)
         EXCEPT !.notes = NotesPut(st.notes, TakenKey(key, stage.name), take)]

\* one pass of the loop over stage.nuptake_target.items()
Uptake(st, stage, item) ==
  LET key          == item[1]
      target       == item[2]
      taken_so_far == NotesGet(st.notes, TakenKey(key, stage.name))
      needed       == Max(0, target - taken_so_far)
      take         == Take(needed, st.stress_w)
  IN  [StockPut(st, key, StockGet(st, key) + take)
         EXCEPT !.notes = NotesPut(st.notes, TakenKey(key, stage.name), taken_so_far + take)]

RECURSIVE UptakeAll(_, _, _)
UptakeAll(st, stage, items) ==
  IF items = <<>> THEN st
  ELSE UptakeAll(Uptake(st, stage, Head(items)), stage, Tail(items))

\* dict.get(key, 0.0) on a nuptake_target
TargetGet(nuptake_target, key) ==
  LET hits == SelectSeq(nuptake_target, LAMBDA it : it[1] = key)
  IN  IF hits = <<>> THEN 0 ELSE Head(hits)[2]

Demanded(stage, crop) ==
  LET prefix == crop_stage_prefix(stage.name, crop.stages)
  IN  SumSeq([i \in 1..Len(prefix) |-> TargetGet(prefix[i].nuptake_target, "N")])

RECURSIVE SumOver(_, _)
SumOver(f, keys) ==
  IF keys = {} THEN 0
  ELSE LET k == CHOOSE x \in keys : TRUE IN f[k] + SumOver(f, keys \ {k})

\* sum(v for k, v in st.notes.items() if k.startswith("N_taken_"))
Taken(notes) == SumOver(notes, {k \in DOMAIN notes : k[1] = "N" /\ k[2] = "taken"})

\* max(0.4, ratio), ratio = min(1, (taken+1e-6)/(demanded+1e-6)) if demanded > 0 else 1
NitrogenStress(taken, demanded) ==
  Max(400, IF demanded > 0 THEN Min(SC, RatioEps(taken, demanded)) ELSE SC)

_nutrients(st, stage, crop) ==
  LET fed == UptakeAll(st, stage, stage.nuptake_target)
  IN  [fed EXCEPT !.stress_n = NitrogenStress(Taken(fed.notes), Demanded(stage, crop))]

(***************************************************************************)
(* engine/sim.py: single-day step                                          *)
(***************************************************************************)
\* max(2.0, 0.0023 * (tmax - tmin) * ((tmin + tmax) / 2.0) + 2.0)
Et0Fallback(w) ==
  Max(2000, (23 * Mul(w.tmax - w.tmin, (w.tmin + w.tmax) \div 2)) \div 10000 + 2000)

Et0(w) == IF w.et0 # None THEN w.et0 ELSE Et0Fallback(w)

\* a variant with the ratio of the logistic term upside down
LaiGainInvertedRatio(st, stage, crop) ==
  Mul(Mul(Mul(Mul(stage.lai_gain, st.lai), SC - (crop.lai_max * SC) \div st.lai),
          st.stress_w), st.stress_n)

\* stage.lai_gain * st.lai * (1.0 - st.lai / crop.lai_max) * st.stress_w * st.stress_n
LaiGain(st, stage, crop) ==
  Mul(Mul(Mul(Mul(stage.lai_gain, st.lai), SC - (st.lai * SC) \div crop.lai_max),
          st.stress_w), st.stress_n)

NewLai(st, stage, crop) == Min(crop.lai_max, st.lai + LaiGain(st, stage, crop))

\* a variant that lost the minus sign of the exponent
AparWrongSign(rad, lai) == Mul(rad, SC - exp(Mul(650, lai)))

\* w.rad * (1.0 - math.exp(-0.65 * st.lai))
Apar(rad, lai) == Mul(rad, SC - exp(-Mul(650, lai)))

\* dB = stage.rue * apar * st.stress_w * st.stress_n
BiomassGain(st, stage, rad) ==
  Mul(Mul(Mul(stage.rue, Apar(rad, st.lai)), st.stress_w), st.stress_n)

\* a variant that takes the irrigation out of the bucket
InflowLessIrrigation(w, field) == w.rain - field.management.irrigation_mm_day

\* inflow = w.rain + (field.management.irrigation_mm_day or 0.0)
Inflow(w, field) == w.rain + field.management.irrigation_mm_day

\* a variant that checks the stage advance before the day's processes run
step_day_advancing_first(field, st, w) ==
  LET crop    == field.crop
      clocked == [st EXCEPT !.date = w.date,
                            !.dap = st.dap + 1,
                            !.gdd_accum = st.gdd_accum + gdd_day(w.tmin, w.tmax, crop.tb)]
      moved   == _advance_stage(clocked, crop)
      stage   == StageAt(crop, moved.stage_index)
      watered == _water_balance(moved, field.soil, Inflow(w, field),
                                etc_from_kc(Et0(w), stage.kc))
      fed     == _nutrients(watered, stage, crop)
      leafed  == [fed EXCEPT !.lai = NewLai(fed, stage, crop)]
  IN  [leafed EXCEPT !.biomass_dm_kg_ha =
          leafed.biomass_dm_kg_ha + BiomassGain(leafed, stage, w.rad)]

step_day(field, st, w) ==
  LET crop    == field.crop
      stage   == StageAt(crop, st.stage_index)
      clocked == [st EXCEPT !.date = w.date,
                            !.dap = st.dap + 1,
                            !.gdd_accum = st.gdd_accum + gdd_day(w.tmin, w.tmax, crop.tb)]
      etc     == etc_from_kc(Et0(w), stage.kc)
      inflow  == Inflow(w, field)
      watered == _water_balance(clocked, field.soil, inflow, etc)
      fed     == _nutrients(watered, stage, crop)
      leafed  == [fed EXCEPT !.lai = NewLai(fed, stage, crop)]
      grown   == [leafed EXCEPT !.biomass_dm_kg_ha =
                      leafed.biomass_dm_kg_ha + BiomassGain(leafed, stage, w.rad)]
  IN  _advance_stage(grown, crop)

\* FieldState(date=weather[0].date, soil_water_mm=min(120.0, rootzone_capacity))
\* with the dataclass defaults of models.py for the other fields
FieldState(date, soil_water_mm) ==
  [date |-> date, stage_index |-> 0, gdd_accum |-> 0, dap |-> 0, lai |-> 50,
   biomass_dm_kg_ha |-> 0, soil_water_mm |-> soil_water_mm,
   stress_w |-> SC, stress_n |-> SC,
   n_stock_kg_ha |-> 0, p_stock_kg_ha |-> 0, k_stock_kg_ha |-> 0,
   notes |-> [x \in {} |-> 0]]

\* the DayResult run_field appends after step_day
DayResult(field, st, w) ==
  [date |-> w.date,
   stage |-> StageAt(field.crop, st.stage_index).name,
   lai |-> st.lai,
   biomass_dm_kg_ha |-> st.biomass_dm_kg_ha,
   soil_water_mm |-> st.soil_water_mm,
   stress_w |-> st.stress_w,
   stress_n |-> st.stress_n,
   n_stock_kg_ha |-> st.n_stock_kg_ha,
   p_stock_kg_ha |-> st.p_stock_kg_ha,
   k_stock_kg_ha |-> st.k_stock_kg_ha,
   gdd_progress |-> st.gdd_accum,
   gdd_target |-> field.crop.stages[Len(field.crop.stages)].gdd_target,
   crop |-> field.crop.species]

(***************************************************************************)
(* engine/harvest.py: estimate_yield                                       *)
(***************************************************************************)
\* min of stress_w over the days recorded in stage_name, 1.0 when there is none
StageMin(series, stage_name) ==
  LET days == SelectSeq(series, LAMBDA d : d.stage = stage_name)
  IN  IF days = <<>> THEN SC ELSE MinSeq([i \in 1..Len(days) |-> days[i].stress_w])

\* a variant that compounds the two penalties instead of adding them
HiPenaltyCompounded(crop, flower_min, grain_min) ==
  Mul(SC - Mul(crop.stress_sensitivity.flower_water, SC - flower_min),
      SC - Mul(crop.stress_sensitivity.grainfill_water, SC - grain_min))

\* hi_penalty = 1.0 - sens[flower_water] * (1 - flower_min)
\*                  - sens[grainfill_water] * (1 - grain_min)
HiPenalty(crop, flower_min, grain_min) ==
  SC - Mul(crop.stress_sensitivity.flower_water, SC - flower_min)
     - Mul(crop.stress_sensitivity.grainfill_water, SC - grain_min)

\* a variant without the 0.3 floor
HiEffNoFloor(crop, flower_min, grain_min) ==
  Min(SC, Mul(crop.hi, HiPenalty(crop, flower_min, grain_min)))

\* hi_eff = max(0.3, min(1.0, crop.hi * hi_penalty))
HiEff(crop, flower_min, grain_min) ==
  Max(300, Min(SC, Mul(crop.hi, HiPenalty(crop, flower_min, grain_min))))

\* (biomass * hi_eff) / 1000.0, in millionths of a tonne per hectare
YieldOf(biomass, hi_eff) == Mul(biomass, hi_eff)

\* a variant that also accepts the first day
MaturityIdxFromFirstDay(series) ==
  LET hits == {i \in 1..Len(series) : series[i].stage \in {"maturity", "grainfill"}}
  IN  IF hits = {} THEN Len(series)
      ELSE CHOOSE i \in hits : \A j \in hits : i <= j

\* next((i for i, d in enumerate(series) if d.stage in (...) and i > 0), len(series) - 1),
\* as a position counted from 1
MaturityIdx(series) ==
  LET hits == {i \in 1..Len(series) :
                 series[i].stage \in {"maturity", "grainfill"} /\ i > 1}
  IN  IF hits = {} THEN Len(series)
      ELSE CHOOSE i \in hits : \A j \in hits : i <= j

\* a variant that leaves the date unset when no maturity day is found
HarvestDateOrNone(series) ==
  IF \E i \in 2..Len(series) : series[i].stage \in {"maturity", "grainfill"}
  THEN series[MaturityIdx(series)].date
  ELSE None

HarvestDate(series) == series[MaturityIdx(series)].date

Grade(flower_min, grain_min) ==
  LET avg_stress == (flower_min + grain_min) \div 2
  IN  IF avg_stress > 800 THEN "A" ELSE IF avg_stress > 600 THEN "B" ELSE "C"

estimate_yield(field, series) ==
  LET crop       == field.crop
      flower_min == StageMin(series, "flowering")
      grain_min  == StageMin(series, "grainfill")
      final      == series[Len(series)]
  IN  [yield_t_ha   |-> YieldOf(final.biomass_dm_kg_ha, HiEff(crop, flower_min, grain_min)),
       harvest_date |-> HarvestDate(series),
       grade        |-> Grade(flower_min, grain_min)]

(***************************************************************************)
(* engine/params.py: get_crop_defaults                                     *)
(***************************************************************************)
UpperChars ==
  <<"A", "B", "C", "D", "E", "F", "G", "H", "I", "J", "K", "L", "M",
    "N", "O", "P", "Q", "R", "S", "T", "U", "V", "W", "X", "Y", "Z">>

LowerChars ==
  <<"a", "b", "c", "d", "e", "f", "g", "h", "i", "j", "k", "l", "m",
    "n", "o", "p", "q", "r", "s", "t", "u", "v", "w", "x", "y", "z">>

Whitespace == {" ", "\t", "\n"}

LowerChar(c) ==
  IF \E i \in 1..26 : UpperChars[i] = c
  THEN LowerChars[CHOOSE i \in 1..26 : UpperChars[i] = c]
  ELSE c

\* str.lower()
lower(s) == [i \in 1..Len(s) |-> LowerChar(s[i])]

\* str.strip(): drop the leading and the trailing white space
RECURSIVE lstrip(_)
lstrip(s) == IF s # <<>> /\ Head(s) \in Whitespace THEN lstrip(Tail(s)) ELSE s

RECURSIVE rstrip(_)
rstrip(s) ==
  IF s # <<>> /\ s[Len(s)] \in Whitespace THEN rstrip(SubSeq(s, 1, Len(s) - 1)) ELSE s

strip(s) == rstrip(lstrip(s))

\* the order of str on the characters of the catalog keys (space before letters)
Ord(c) ==
  IF c = " " THEN 0 ELSE CHOOSE i \in 1..26 : LowerChars[i] = c

RECURSIVE StrLess(_, _)
StrLess(a, b) ==
  IF b = <<>> THEN FALSE
  ELSE IF a = <<>> THEN TRUE
  ELSE IF Head(a) # Head(b) THEN Ord(Head(a)) < Ord(Head(b))
  ELSE StrLess(Tail(a), Tail(b))

\* sorted(...) of a set of strings
RECURSIVE sorted(_)
sorted(S) ==
  IF S = {} THEN <<>>
  ELSE LET m == CHOOSE x \in S : \A y \in S \ {x} : StrLess(x, y)
       IN  <<m>> \o sorted(S \ {m})

\* a variant that forgets str.lower()
NormalizeNameNoLower(name) == strip(name)

\* name.lower().strip()
NormalizeName(name) == strip(lower(name))

\* The outcome of a call: raised = "" and value = <<the CropParams>>, or the
\* exception raised, with the names its message lists

get_crop_defaults(name) ==
  LET n == NormalizeName(name)
  IN  IF n \notin DOMAIN crop_map
      THEN [raised |-> "ValueError", message |-> "Unsupported crop", name |-> n,
            supported |-> sorted(DOMAIN crop_map), value |-> <<>>]
      ELSE [raised |-> "", message |-> "", name |-> n,
            supported |-> <<>>, value |-> <<crop_map[n]>>]

(***************************************************************************)
(* engine/sim.py: Simulator._to_daily_weather                              *)
(***************************************************************************)
WeatherDay(date, tmin, tmax, rain, rad, et0) ==
  [date |-> date, tmin |-> tmin, tmax |-> tmax, rain |-> rain, rad |-> rad, et0 |-> et0]

\* Python's "a or b" on lists: an absent key, None and [] are all <<>> here
Or(a, b) == IF a # <<>> THEN a ELSE b

\* [v] * n
Fill(v, n) == [i \in 1..n |-> v]

DailyToWeather(d) ==
  LET dates == Or(d.time, d.date)
      tmin  == Or(Or(d.temperature_2m_min, d.tmin), Fill(20000, Len(dates)))
      tmax  == Or(Or(d.temperature_2m_max, d.tmax), Fill(30000, Len(dates)))
      rain  == Or(Or(Or(d.precipitation_sum, d.rain_sum), d.rain), Fill(0, Len(dates)))
      rad   == Or(Or(d.shortwave_radiation_sum, d.radiation_sum), Fill(18000, Len(dates)))
      et0   == d.et0
  IN  [i \in 1..Len(dates) |->
         WeatherDay(dates[i], tmin[i], tmax[i], rain[i], rad[i],
                    IF et0 # <<>> THEN et0[i] ELSE None)]

\* str(ts)[:10] of a time stamp YYYYMMDDHH
DayOf(ts) == ts \div 100

RECURSIVE SortedInts(_)
SortedInts(S) ==
  IF S = {} THEN <<>>
  ELSE LET m == CHOOSE x \in S : \A y \in S : x <= y
       IN  <<m>> \o SortedInts(S \ {m})

RECURSIVE MaxSeq(_)
MaxSeq(s) == IF Len(s) = 1 THEN Head(s) ELSE Max(Head(s), MaxSeq(Tail(s)))

HourlyToWeather(h) ==
  LET times == Or(h.time, h.datetime)
      temp  == Or(h.temperature_2m, h.temperature)
      rain  == Or(h.precipitation, h.rain)
      rad   == Or(h.shortwave_radiation, h.radiation)
      T(i)  == IF i <= Len(temp) THEN temp[i] ELSE 25000
      R(i)  == IF i <= Len(rain) THEN rain[i] ELSE 0
      S(i)  == IF i <= Len(rad) THEN rad[i] ELSE 750
      days  == SortedInts({DayOf(times[i]) : i \in 1..Len(times)})
      Hours(day) == SelectSeq([i \in 1..Len(times) |-> i], LAMBDA i : DayOf(times[i]) = day)
      Bucket(day) ==
        LET hs == Hours(day)
        IN  [tmin  |-> MinSeq([j \in 1..Len(hs) |-> T(hs[j])]),
             tmax  |-> MaxSeq([j \in 1..Len(hs) |-> T(hs[j])]),
             rain  |-> SumSeq([j \in 1..Len(hs) |-> R(hs[j])]),
             rad   |-> SumSeq([j \in 1..Len(hs) |-> S(hs[j])]),
             count |-> Len(hs)]
      DailyRad(vals) ==
        IF vals.count >= 6 THEN (vals.rad \div Max(1, vals.count)) * 24 ELSE vals.rad
  IN  [k \in 1..Len(days) |->
         LET vals == Bucket(days[k])
         IN  WeatherDay(days[k], vals.tmin, vals.tmax, vals.rain, DailyRad(vals), None)]

\* payload.daily / payload.hourly: <<the dict>> when the key is in the payload
_to_daily_weather(payload) ==
  IF payload.daily # <<>> THEN DailyToWeather(payload.daily[1])
  ELSE IF payload.hourly # <<>> THEN HourlyToWeather(payload.hourly[1])
  ELSE <<>>

(***************************************************************************)
(* Inputs                                                                  *)
(***************************************************************************)
\* the longest weather series handed to run_field
MaxDays == 3

SoilLayer(fc) == [fc |-> fc]

SoilProfile(layers) == [layers |-> layers, runoff_threshold_mm |-> 20000]

\* SoilProfile(layers=[SoilLayer(depth_cm=60, fc=150, wp=40, ks=50)])
DefaultSoil == SoilProfile(<<SoilLayer(150000)>>)

\* a shallow two-layer profile, 3 mm in all
ShallowSoil == SoilProfile(<<SoilLayer(2000), SoilLayer(1000)>>)

Soils == {DefaultSoil, ShallowSoil}

Irrigations == {0, 3000, 5000}

\* CropParams that are not in the catalog: short cycles, thermal-time and
\* day-count targets, a last stage with a target, a stage without any target,
\* stages without nitrogen, a canopy that closes within two days
QuickGrain ==
  [species |-> "quickgrain", tb |-> 8000, lai_max |-> 5000, hi |-> 500,
   stress_sensitivity |-> [flower_water |-> 700, grainfill_water |-> 500, n |-> 450],
   stages |-> <<
     StageParams("vegetative", 10000, None, 1050, 1600, 160, NPK(20000, 6000, 10000)),
     StageParams("flowering", 36000, None, 1200, 1700, 100, NPK(4000, 1000, 3000)),
     StageParams("grainfill", 37000, None, 950, 1400, 60, NPK(2000, 500, 1500)),
     StageParams("maturity", None, None, 600, 500, 0, NPK(0, 0, 0))
   >>]

QuickLeaf ==
  [species |-> "quickleaf", tb |-> 10000, lai_max |-> 3000, hi |-> 850,
   stress_sensitivity |-> [flower_water |-> 500, grainfill_water |-> 400, n |-> 300],
   stages |-> <<
     StageParams("germination", None, 1, 1000, 1200, 30000, NPK(10000, 4000, 12000)),
     StageParams("flowering", None, 2, 1100, 1400, 30000, << <<"N", 6000>> >>),
     StageParams("harvest", None, 3, 900, 800, 0, NPK(0, 0, 0))
   >>]

SlowRoot ==
  [species |-> "slowroot", tb |-> 12000, lai_max |-> 4000, hi |-> 550,
   stress_sensitivity |-> [flower_water |-> 300, grainfill_water |-> 300, n |-> 400],
   stages |-> <<
     StageParams("sprouting", 15000, 1, 400, 900, 90, << <<"P", 5000>> >>),
     StageParams("bulking", None, None, 1000, 1500, 140, <<>>),
     StageParams("maturity", None, 2, 900, 1000, 20, NPK(10000, 5000, 20000))
   >>]

\* a crop whose coefficients compress into three days what a field crop shows
\* over a season: the canopy closes in two days and then draws far more water
\* than a dry spell supplies; its last stage carries a thermal-time target
ThirstyCrop ==
  [species |-> "thirsty", tb |-> 10000, lai_max |-> 3000, hi |-> 900,
   stress_sensitivity |-> [flower_water |-> 700, grainfill_water |-> 500, n |-> 400],
   stages |-> <<
     StageParams("vegetative", None, 1, 30000, 1500, 5000, <<>>),
     StageParams("flowering", None, 2, 30000, 0, 20000, <<>>),
     StageParams("grainfill", 40000, None, 10000, 0, 0, <<>>)
   >>]

\* a crop that is recorded in its maturity stage from the first day on
EarlyRipe ==
  [species |-> "earlyripe", tb |-> 10000, lai_max |-> 3000, hi |-> 500,
   stress_sensitivity |-> [flower_water |-> 500, grainfill_water |-> 400, n |-> 300],
   stages |-> <<
     StageParams("emergence", None, 1, 1000, 1500, 200, NPK(5000, 2000, 3000)),
     StageParams("maturity", None, None, 800, 1000, 0, NPK(0, 0, 0))
   >>]

\* a crop that flowers on the second day and fills grain on the third, with a
\* canopy whose demand is a little above an irrigation of 3 mm
DryFlower ==
  [species |-> "dryflower", tb |-> 10000, lai_max |-> 3000, hi |-> 900,
   stress_sensitivity |-> [flower_water |-> 700, grainfill_water |-> 500, n |-> 400],
   stages |-> <<
     StageParams("vegetative", None, 1, 30000, 1500, 5000, <<>>),
     StageParams("flowering", None, 3, 9000, 1500, 0, <<>>),
     StageParams("grainfill", None, None, 9000, 1000, 0, <<>>)
   >>]

Crops == {maize_defaults, QuickGrain, QuickLeaf, SlowRoot, ThirstyCrop, EarlyRipe, DryFlower}

FieldConfig(id, soil, crop, irrigation_mm_day) ==
  [id |-> id, soil |-> soil, crop |-> crop,
   management |-> [irrigation_mm_day |-> irrigation_mm_day]]

Fields == {FieldConfig("F1", soil, crop, irr) :
             soil \in Soils, crop \in Crops, irr \in Irrigations}

\* a dry day (test_irrigation_effect_on_dry_spell), a wet day without et0,
\* a heat spike, and a cold wet day without radiation or evapotranspiration
WeatherDays ==
  { WeatherDay(20250401, 20000, 31000, 0, 18000, 4200),
    WeatherDay(20250302, 19000, 30000, 12000, 17400, None),
    WeatherDay(20250710, 40000, 50000, 2000, 18000, 4000),
    WeatherDay(20250115, 2000, 10000, 30000, 0, 0) }

RECURSIVE SeqsUpTo(_, _)
SeqsUpTo(S, n) ==
  IF n = 0 THEN {<<>>}
  ELSE LET shorter == SeqsUpTo(S, n - 1)
       IN  shorter \cup {Append(s, x) : s \in {t \in shorter : Len(t) = n - 1}, x \in S}

WeatherSeries == SeqsUpTo(WeatherDays, MaxDays)

Absent == <<>>

DailyDict(time, date, tmin2m, tmin, tmax2m, tmax, precip, rain, rad, et0) ==
  [time |-> time, date |-> date, temperature_2m_min |-> tmin2m, tmin |-> tmin,
   temperature_2m_max |-> tmax2m, tmax |-> tmax, precipitation_sum |-> precip,
   rain_sum |-> Absent, rain |-> rain, shortwave_radiation_sum |-> rad,
   radiation_sum |-> Absent, et0 |-> et0]

HourlyDict(time, temp, precip, rad) ==
  [time |-> time, datetime |-> Absent, temperature_2m |-> temp, temperature |-> Absent,
   precipitation |-> precip, rain |-> Absent, shortwave_radiation |-> rad,
   radiation |-> Absent]

EmptyDaily ==
  DailyDict(Absent, Absent, Absent, Absent, Absent, Absent, Absent, Absent, Absent, Absent)

Payloads ==
  { \* the arrays app.simulate builds from a two-day forecast
    [daily |-> <<DailyDict(<<20250301, 20250302>>, Absent, <<19000, 19500>>, Absent,
                           <<30000, 30600>>, Absent, <<2000, 0>>, Absent,
                           <<18000, 17400>>, <<4000, 4200>>)>>,
     hourly |-> <<>>],
    \* dates only: every other array falls back
    [daily |-> <<DailyDict(<<20250301, 20250302, 20250303>>, Absent, Absent, Absent,
                           Absent, Absent, Absent, Absent, Absent, Absent)>>,
     hourly |-> <<>>],
    \* the alternative key names
    [daily |-> <<DailyDict(Absent, <<20250305>>, Absent, <<2000>>, Absent, <<9000>>,
                           Absent, <<25000>>, Absent, Absent)>>,
     hourly |-> <<>>],
    \* a daily block without days, next to hourly data
    [daily |-> <<EmptyDaily>>,
     hourly |-> <<HourlyDict(<<2025030100>>, <<21000>>, <<0>>, <<700>>)>>],
    \* a daily block without days
    [daily |-> <<EmptyDaily>>, hourly |-> <<>>],
    \* hourly data of two days, out of order, the arrays shorter than the times
    [daily |-> <<>>,
     hourly |-> <<HourlyDict(<<2025030206, 2025030112, 2025030218>>,
                             <<18000, 29000>>, <<1000>>, Absent)>>],
    \* an hourly block without hours
    [daily |-> <<>>, hourly |-> <<HourlyDict(Absent, Absent, Absent, Absent)>>],
    \* an unknown provider format
    [daily |-> <<>>, hourly |-> <<>>] }

\* crop names as a caller types them
TypedNames ==
  { <<"m", "a", "i", "z", "e">>,
    <<"M", "a", "i", "z", "e">>,
    <<" ", "M", "A", "I", "Z", "E", " ", " ">>,
    <<"\t", "R", "i", "c", "e", "\n">>,
    <<"M", "u", "n", "g", " ", "B", "e", "a", "n">>,
    <<" ", "f", "a", "v", "a", " ", "b", "e", "a", "n", "s">>,
    <<"m", "u", "n", "g", "b", "e", "a", "n">>,
    <<"m", "a", " ", "i", "z", "e">>,
    <<"W", "h", "e", "a", "t">>,
    <<"m", "a", "i", "z">>,
    <<"y", "a", "m">>,
    <<" ">>,
    <<>> }

Requests == {[crop |-> name, irrigation_mm_day |-> irr] :
               name \in TypedNames, irr \in Irrigations}

(***************************************************************************)
(* The state machine                                                       *)
(***************************************************************************)
VARIABLES
  entry,     \* the function the caller calls: "run_field" or "Simulator.run"
  req,       \* Simulator.run: the ScenarioRequest, <<>> for run_field
  payload,   \* Simulator.run: the weather payload, <<>> for run_field
  field,     \* <<the FieldConfig run_field is called with>>, <<>> before it is built
  weather,   \* the list of WeatherDay run_field is called with
  pc,        \* where the call is
  st,        \* <<the FieldState of run_field>>, <<>> before it is constructed
  series,    \* the DayResults appended so far
  result,    \* <<the RunResult run_field returned>>, <<>> before
  response,  \* <<the SimulationResult Simulator.run returned>>, <<>> before
  raised,    \* the exception that ended the call, NoError when none
  earlier,   \* <<the field and the RunResult of the caller's previous run_field call>>
  tasks,     \* HarvestPlanner.tasks
  zones,     \* FarmLayout.zones
  scenario,  \* run_multi_field: the nodes of the ScenarioConfig
  calls,     \* the number of scheduler calls (or scenario nodes) done so far
  called,    \* the last scheduler call and its arguments
  plan,      \* what the last plan_schedule returned
  summary,   \* <<what the last summarize_plan returned>>
  workers,   \* the run_field calls of a caller that interleaves them, one record each
  heap       \* the FieldState objects of those calls, by reference

\* the state of the harvest scheduler and of its caller
harvest == <<tasks, zones, scenario, calls, called, plan, summary>>

\* the state of a caller that runs several fields at once
parallel == <<workers, heap>>

vars == <<entry, req, payload, field, weather, pc, st, series, result, response, raised,
          earlier, harvest, parallel>>

NoError == [type |-> "", message |-> "", supported |-> <<>>]

\* no run_multi_field call
NoScenario == [nodes |-> <<>>, weather |-> <<>>]

\* no scheduler call yet
NoCall ==
  [op |-> "", field_id |-> "", crop |-> "", planned_date |-> None,
   yield_t_ha |-> 0, maturity |-> 0, amount |-> 0]

Init ==
  /\ entry \in {"run_field", "Simulator.run"}
  /\ \/ /\ entry = "run_field"
        /\ req = <<>>
        /\ payload = <<>>
        /\ \E f \in Fields : field = <<f>>
        /\ weather \in WeatherSeries
        /\ pc = "run_field"
     \/ /\ entry = "Simulator.run"
        /\ \E r \in Requests : req = <<r>>
        /\ \E p \in Payloads : payload = <<p>>
        /\ field = <<>>
        /\ weather = <<>>
        /\ pc = "Simulator.run"
  /\ st = <<>>
  /\ series = <<>>
  /\ result = <<>>
  /\ response = <<>>
  /\ raised = NoError
  /\ earlier = <<>>
  /\ tasks = <<>>
  /\ zones = <<>>
  /\ scenario = NoScenario
  /\ calls = 0
  /\ called = NoCall
  /\ plan = <<>>
  /\ summary = <<>>
  /\ workers = <<>>
  /\ heap = <<>>

\* Simulator.run up to its call of run_field
SimulatorRun ==
  /\ pc = "Simulator.run"
  /\ LET weather_days == _to_daily_weather(payload[1])
         looked       == get_crop_defaults(req[1].crop)
     IN  IF weather_days = <<>>
         THEN /\ raised' = [type |-> "ValueError",
                            message |-> "No weather data available for simulation horizon",
                            supported |-> <<>>]
              /\ pc' = "raised"
              /\ UNCHANGED <<field, weather>>
         ELSE IF looked.raised # ""
         THEN /\ raised' = [type |-> looked.raised, message |-> looked.message,
                            supported |-> looked.supported]
              /\ pc' = "raised"
              /\ UNCHANGED <<field, weather>>
         ELSE /\ field' = <<FieldConfig("field-1", DefaultSoil, looked.value[1],
                                        req[1].irrigation_mm_day)>>
              /\ weather' = weather_days
              /\ pc' = "run_field"
              /\ UNCHANGED raised
  /\ UNCHANGED <<entry, req, payload, st, series, result, response>>
  /\ UNCHANGED <<earlier, harvest, parallel>>

\* a variant whose FieldStates share one notes dict, as a mutable default
\* argument would make them
RunFieldStartSharingNotes ==
  /\ pc = "run_field"
  /\ IF weather = <<>>
     THEN /\ raised' = [type |-> "IndexError", message |-> "list index out of range",
                        supported |-> <<>>]
          /\ pc' = "raised"
          /\ UNCHANGED <<st, series>>
     ELSE /\ series' = <<>>
          /\ st' = <<[FieldState(weather[1].date,
                                 Min(120000, rootzone_capacity(field[1].soil)))
                       EXCEPT !.notes = IF st = <<>> THEN @ ELSE st[1].notes]>>
          /\ pc' = "loop"
          /\ UNCHANGED raised
  /\ UNCHANGED <<entry, req, payload, field, weather, result, response>>
  /\ UNCHANGED <<earlier, harvest, parallel>>

\* a variant that tolerates the empty list: no first date, no day to loop over
RunFieldStartUnchecked ==
  /\ pc = "run_field"
  /\ st' = <<FieldState(IF weather = <<>> THEN None ELSE weather[1].date,
                        Min(120000, rootzone_capacity(field[1].soil)))>>
  /\ series' = <<>>
  /\ pc' = IF weather = <<>> THEN "estimate" ELSE "loop"
  /\ UNCHANGED <<entry, req, payload, field, weather, result, response, raised>>
  /\ UNCHANGED <<earlier, harvest, parallel>>

\* run_field, line 308-309: the empty list and the initial FieldState
RunFieldStart ==
  /\ pc = "run_field"
  /\ IF weather = <<>>
     THEN /\ raised' = [type |-> "IndexError", message |-> "list index out of range",
                        supported |-> <<>>]
          /\ pc' = "raised"
          /\ UNCHANGED <<st, series>>
     ELSE /\ series' = <<>>
          /\ st' = <<FieldState(weather[1].date,
                                Min(120000, rootzone_capacity(field[1].soil)))>>
          /\ pc' = "loop"
          /\ UNCHANGED raised
  /\ UNCHANGED <<entry, req, payload, field, weather, result, response>>
  /\ UNCHANGED <<earlier, harvest, parallel>>

\* a variant that puts the new day in front
PrependDay(days, d) == <<d>> \o days

\* series.append(DayResult(...))
AppendDay(days, d) == Append(days, d)

\* a variant that records the stage the day began in
RunFieldDayRecordingDawnStage ==
  /\ pc = "loop"
  /\ LET w    == weather[Len(series) + 1]
         next == step_day(field[1], st[1], w)
     IN  /\ st' = <<next>>
         /\ series' = AppendDay(series,
                         [DayResult(field[1], next, w)
                            EXCEPT !.stage = StageAt(field[1].crop, st[1].stage_index).name])
         /\ pc' = IF Len(series) + 1 = Len(weather) THEN "estimate" ELSE "loop"
  /\ UNCHANGED <<entry, req, payload, field, weather, result, response, raised>>
  /\ UNCHANGED <<earlier, harvest, parallel>>

\* run_field, lines 311-333: one pass of "for w in weather"
RunFieldDay ==
  /\ pc = "loop"
  /\ LET w    == weather[Len(series) + 1]
         next == step_day(field[1], st[1], w)
     IN  /\ st' = <<next>>
         /\ series' = AppendDay(series, DayResult(field[1], next, w))
         /\ pc' = IF Len(series) + 1 = Len(weather) THEN "estimate" ELSE "loop"
  /\ UNCHANGED <<entry, req, payload, field, weather, result, response, raised>>
  /\ UNCHANGED <<earlier, harvest, parallel>>

RunResult(field_id, days, est) ==
  [field_id |-> field_id, series |-> days, yield_t_ha |-> est.yield_t_ha,
   harvest_date |-> est.harvest_date, grade |-> est.grade]

\* run_field, lines 335-338
RunFieldReturn ==
  /\ pc = "estimate"
  /\ result' = <<RunResult(field[1].id, series, estimate_yield(field[1], series))>>
  /\ pc' = IF entry = "Simulator.run" THEN "return" ELSE "done"
  /\ UNCHANGED <<entry, req, payload, field, weather, st, series, response, raised>>
  /\ UNCHANGED <<earlier, harvest, parallel>>

SimulationResult(r, run_res) ==
  [field_id |-> run_res.field_id, yield_t_ha |-> run_res.yield_t_ha,
   harvest_date |-> run_res.harvest_date, grade |-> run_res.grade,
   series |-> run_res.series,
   summary |-> [crop |-> r.crop, days |-> Len(run_res.series)]]

\* Simulator.run, lines 71-102
SimulatorReturn ==
  /\ pc = "return"
  /\ response' = <<SimulationResult(req[1], result[1])>>
  /\ pc' = "done"
  /\ UNCHANGED <<entry, req, payload, field, weather, st, series, result, raised>>
  /\ UNCHANGED <<earlier, harvest, parallel>>

(***************************************************************************)
(* run_field as one call, for the callers that use its result               *)
(***************************************************************************)
RECURSIVE RunDays(_, _, _, _)
RunDays(f, state, days_left, days) ==
  IF days_left = <<>> THEN days
  ELSE LET w    == Head(days_left)
           next == step_day(f, state, w)
       IN  RunDays(f, next, Tail(days_left), AppendDay(days, DayResult(f, next, w)))

\* run_field(field, weather) for a weather list that is not empty
run_field(f, days) ==
  LET done == RunDays(f, FieldState(days[1].date, Min(120000, rootzone_capacity(f.soil))),
                      days, <<>>)
  IN  RunResult(f.id, done, estimate_yield(f, done))

(***************************************************************************)
(* engine/models.py: HarvestTask, HarvestPlanner, FieldZone, FarmLayout    *)
(***************************************************************************)
HarvestTask(field_id, crop, planned_date, expected_yield_t_ha, maturity_ratio) ==
  [field_id |-> field_id, crop |-> crop, planned_date |-> planned_date,
   expected_yield_t_ha |-> expected_yield_t_ha, maturity_ratio |-> maturity_ratio,
   ripe_color |-> "#e53935", actual_yield_t_ha |-> <<>>, completed |-> FALSE]

\* a variant that looks for a task of the field, whatever its crop
add_task_once_per_field(planner_tasks, task) ==
  IF \E i \in 1..Len(planner_tasks) : planner_tasks[i].field_id = task.field_id
  THEN planner_tasks
  ELSE Append(planner_tasks, task)

\* a variant that replaces the task of the pair by the new one
add_task_replacing(planner_tasks, task) ==
  IF \E i \in 1..Len(planner_tasks) :
       planner_tasks[i].field_id = task.field_id /\ planner_tasks[i].crop = task.crop
  THEN [i \in 1..Len(planner_tasks) |->
          IF planner_tasks[i].field_id = task.field_id /\ planner_tasks[i].crop = task.crop
          THEN task ELSE planner_tasks[i]]
  ELSE Append(planner_tasks, task)

\* a variant without the search for an existing task
add_task_unconditionally(planner_tasks, task) == Append(planner_tasks, task)

\* HarvestPlanner.add_task
add_task(planner_tasks, task) ==
  IF \E i \in 1..Len(planner_tasks) :
       planner_tasks[i].field_id = task.field_id /\ planner_tasks[i].crop = task.crop
  THEN planner_tasks
  ELSE Append(planner_tasks, task)

\* a variant that finds the task of the field registered last
get_task_latest(planner_tasks, field_id) ==
  LET hits == {i \in 1..Len(planner_tasks) : planner_tasks[i].field_id = field_id}
  IN  IF hits = {} THEN 0 ELSE CHOOSE i \in hits : \A j \in hits : i >= j

\* HarvestPlanner.get_task as a position in the list, 0 for None
get_task(planner_tasks, field_id) ==
  LET hits == {i \in 1..Len(planner_tasks) : planner_tasks[i].field_id = field_id}
  IN  IF hits = {} THEN 0 ELSE CHOOSE i \in hits : \A j \in hits : i <= j

pending_tasks(planner_tasks) == SelectSeq(planner_tasks, LAMBDA t : ~t.completed)

completed_tasks(planner_tasks) == SelectSeq(planner_tasks, LAMBDA t : t.completed)

FieldZone(id) == [id |-> id, color |-> "#66bb6a", maturity_ratio |-> 0]

\* next((z for z in zones if z.id == field_id), None) as a position, 0 for None
ZoneOf(layout_zones, field_id) ==
  LET hits == {i \in 1..Len(layout_zones) : layout_zones[i].id = field_id}
  IN  IF hits = {} THEN 0 ELSE CHOOSE i \in hits : \A j \in hits : i <= j

BaseColor(maturity) ==
  IF maturity < 300 THEN "#66bb6a" ELSE IF maturity < 700 THEN "#fbc02d" ELSE "#e53935"

\* FarmLayout.update_zone_growth
update_zone_growth(layout_zones, field_id, maturity, water_stress) ==
  LET i == ZoneOf(layout_zones, field_id)
  IN  IF i = 0 THEN layout_zones
      ELSE [layout_zones EXCEPT ![i] =
              [@ EXCEPT !.maturity_ratio = maturity,
                        !.color = IF water_stress < 600 THEN "#8b4513"
                                  ELSE BaseColor(maturity)]]

(***************************************************************************)
(* engine/harvest.py: HarvestManager.  A manager is the record of its      *)
(* planner's tasks and its layout's zones.                                 *)
(***************************************************************************)
HarvestManager(planner_tasks, layout_zones) ==
  [tasks |-> planner_tasks, zones |-> layout_zones]

\* a variant that leaves the layout alone when the pair already has a task
register_field_result_once(m, field_id, crop, days, yield_t_ha, harvest_date, maturity) ==
  IF \E i \in 1..Len(m.tasks) : m.tasks[i].field_id = field_id /\ m.tasks[i].crop = crop
  THEN m
  ELSE HarvestManager(
         Append(m.tasks, HarvestTask(field_id, crop, harvest_date, yield_t_ha, maturity)),
         update_zone_growth(m.zones, field_id, maturity, days[Len(days)].stress_w))

\* HarvestManager.register_field_result
register_field_result(m, field_id, crop, days, yield_t_ha, harvest_date, maturity) ==
  HarvestManager(
    add_task(m.tasks, HarvestTask(field_id, crop, harvest_date, yield_t_ha, maturity)),
    update_zone_growth(m.zones, field_id, maturity, days[Len(days)].stress_w))

\* a variant that recolours the zone whether or not a task was found
mark_completed_recolouring(m, field_id, actual_yield) ==
  LET i == get_task(m.tasks, field_id)
      z == ZoneOf(m.zones, field_id)
  IN  HarvestManager(
        IF i = 0 THEN m.tasks
        ELSE [m.tasks EXCEPT ![i] = [@ EXCEPT !.actual_yield_t_ha = <<actual_yield>>,
                                              !.completed = TRUE]],
        IF z = 0 THEN m.zones ELSE [m.zones EXCEPT ![z] = [@ EXCEPT !.color = "#8d6e63"]])

\* HarvestManager.mark_completed, with HarvestTask.mark_completed
mark_completed(m, field_id, actual_yield) ==
  LET i == get_task(m.tasks, field_id)
      z == ZoneOf(m.zones, field_id)
  IN  IF i = 0 THEN m
      ELSE HarvestManager(
             [m.tasks EXCEPT ![i] = [@ EXCEPT !.actual_yield_t_ha = <<actual_yield>>,
                                              !.completed = TRUE]],
             IF z = 0 THEN m.zones
             ELSE [m.zones EXCEPT ![z] = [@ EXCEPT !.color = "#8d6e63"]])

\* round(x, 2) of a number held in units of 1/(100 * unit): to the nearest
\* multiple of unit, a tie going to the even one
Round2(x, unit) ==
  LET q == x \div unit
      r == x % unit
  IN  IF 2 * r > unit \/ (2 * r = unit /\ q % 2 = 1) THEN (q + 1) * unit ELSE q * unit

\* a variant that reports the mean as it is
AverageMaturityUnrounded(planner_tasks) ==
  SumSeq([i \in 1..Len(planner_tasks) |-> planner_tasks[i].maturity_ratio])
    \div Max(1, Len(planner_tasks))

\* round(sum(t.maturity_ratio for t in tasks) / max(1, total), 2)
AverageMaturity(planner_tasks) ==
  LET total == Len(planner_tasks)
      sum   == SumSeq([i \in 1..total |-> planner_tasks[i].maturity_ratio])
  IN  Round2((sum * SC) \div Max(1, total), 10 * SC) \div SC

\* HarvestManager.summarize_plan
summarize_plan(m) ==
  [total_fields |-> Len(m.tasks),
   pending |-> Len(pending_tasks(m.tasks)),
   completed |-> Len(completed_tasks(m.tasks)),
   average_maturity |-> AverageMaturity(m.tasks)]

\* a variant that puts a task in front of the tasks of its date
InsertBeforeDate(sorted_tasks, t) ==
  LET later == {i \in 1..Len(sorted_tasks) : sorted_tasks[i].planned_date >= t.planned_date}
      at    == IF later = {} THEN Len(sorted_tasks) + 1
               ELSE CHOOSE i \in later : \A j \in later : i <= j
  IN  SubSeq(sorted_tasks, 1, at - 1) \o <<t>> \o SubSeq(sorted_tasks, at, Len(sorted_tasks))

\* one insertion of the stable sort: t goes behind every task that is not later
InsertByDate(sorted_tasks, t) ==
  LET later == {i \in 1..Len(sorted_tasks) : sorted_tasks[i].planned_date > t.planned_date}
      at    == IF later = {} THEN Len(sorted_tasks) + 1
               ELSE CHOOSE i \in later : \A j \in later : i <= j
  IN  SubSeq(sorted_tasks, 1, at - 1) \o <<t>> \o SubSeq(sorted_tasks, at, Len(sorted_tasks))

\* sorted(self.planner.tasks, key=lambda x: x.planned_date)
RECURSIVE SortedByDate(_, _)
SortedByDate(planner_tasks, sorted_tasks) ==
  IF planner_tasks = <<>> THEN sorted_tasks
  ELSE SortedByDate(Tail(planner_tasks), InsertByDate(sorted_tasks, Head(planner_tasks)))

\* the dict plan_schedule appends for a task
PlanItem(t) ==
  [field_id |-> t.field_id, crop |-> t.crop, planned_date |-> t.planned_date,
   expected_yield_t |-> Round2(t.expected_yield_t_ha, 10 * SC),
   grade |-> IF t.maturity_ratio >= 900 THEN "A" ELSE "B",
   maturity_ratio |-> t.maturity_ratio,
   ripe_color |-> BaseColor(t.maturity_ratio)]

\* a variant that stops only once the capacity is overdrawn
StorageOverdrawn(capacity) == capacity < 0

\* "if capacity <= 0: break"
StorageFull(capacity) == capacity <= 0

\* the loop of plan_schedule over the sorted tasks
RECURSIVE PlanLoop(_, _, _)
PlanLoop(sorted_tasks, capacity, items) ==
  IF sorted_tasks = <<>> THEN items
  ELSE LET t    == Head(sorted_tasks)
           left == capacity - t.expected_yield_t_ha
       IN  IF StorageFull(left) THEN Append(items, PlanItem(t))
           ELSE PlanLoop(Tail(sorted_tasks), left, Append(items, PlanItem(t)))

\* HarvestManager.plan_schedule
plan_schedule(m, storage_capacity_t) ==
  PlanLoop(SortedByDate(m.tasks, <<>>), storage_capacity_t, <<>>)

(***************************************************************************)
(* engine/harvest.py: build_harvest_plan                                   *)
(***************************************************************************)
\* "x or default" on a number: None and 0 are falsy
OrNumber(x, default) == IF x = None \/ x = 0 THEN default ELSE x

\* "x or default" on a string
OrText(x, default) == IF x = "" THEN default ELSE x

\* a variant without the cap at 1.0
MaturityUncapped(last) ==
  DivSC(OrNumber(last.gdd_progress, 0), OrNumber(last.gdd_target, SC))

\* min(1.0, (last.gdd_progress or 0.0) / (last.gdd_target or 1.0))
MaturityOf(last) ==
  Min(SC, DivSC(OrNumber(last.gdd_progress, 0), OrNumber(last.gdd_target, SC)))

\* one pass of "for fid, res in results.items()"
RegisterResult(m, fid, res) ==
  LET last == res.series[Len(res.series)]
  IN  register_field_result(m, fid, OrText(last.crop, "unknown"), res.series,
                            res.yield_t_ha, res.harvest_date, MaturityOf(last))

RECURSIVE RegisterResults(_, _)
RegisterResults(m, results) ==
  IF results = <<>> THEN m
  ELSE RegisterResults(RegisterResult(m, Head(results)[1], Head(results)[2]), Tail(results))

\* build_harvest_plan: results is the dict as the list of its items
build_harvest_plan(results, layout_zones, storage_capacity_t) ==
  LET manager == RegisterResults(HarvestManager(<<>>, layout_zones), results)
  IN  [summary |-> summarize_plan(manager),
       plan |-> plan_schedule(manager, storage_capacity_t),
       fields |-> manager.tasks,
       zones |-> manager.zones]

(***************************************************************************)
(* Inputs of the scheduler                                                 *)
(***************************************************************************)
\* the most calls one HarvestManager receives
MaxCalls == 4

FieldIds == {"F1", "F2"}

DayOn(date) == CHOOSE w \in WeatherDays : w.date = date

\* the runs behind the sample RunResults: two maize runs, a run that never
\* warmed up, and two runs of one crop that stopped short of its thermal-time
\* target, one a day later than the other
SampleFields ==
  { [crop |-> maize_defaults, irrigation |-> 0, dates |-> <<20250302, 20250401>>],
    [crop |-> maize_defaults, irrigation |-> 3000, dates |-> <<20250401, 20250302>>],
    [crop |-> QuickGrain, irrigation |-> 3000, dates |-> <<20250115>>],
    [crop |-> ThirstyCrop, irrigation |-> 3000, dates |-> <<20250401>>],
    [crop |-> ThirstyCrop, irrigation |-> 0, dates |-> <<20250401, 20250302>>] }

\* RunResults as run_field returns them
SampleRuns ==
  { run_field(FieldConfig("F1", DefaultSoil, c.crop, c.irrigation),
              [i \in 1..Len(c.dates) |-> DayOn(c.dates[i])]) : c \in SampleFields }

\* no room at all, exactly the room for one of the two maize harvests
\* (0.000351 and 0.000355 t), and the default of 100 t
StorageCapacities == {0, 351, 355, 100 * SC * SC}

ActualYields == {1500 * SC}

\* the layout of the caller: a zone for F1, none for F2
Layout == <<FieldZone("F1")>>

\* a NodeConfig with the params run_multi_field reads
NodeConfig(id, type, crop, irrigation) ==
  [id |-> id, type |-> type, params |-> [crop |-> crop, irrigation |-> irrigation]]

\* two fields around a storage node; one field listed twice; an unknown crop
Scenarios ==
  { [nodes |-> <<NodeConfig("F1", "field", <<"M", "a", "i", "z", "e">>, 0),
                 NodeConfig("S1", "storage", <<>>, 0),
                 NodeConfig("F2", "field", <<"r", "i", "c", "e", " ">>, 3000)>>,
     weather |-> <<DayOn(20250302), DayOn(20250401)>>],
    [nodes |-> <<NodeConfig("F1", "field", <<"m", "a", "i", "z", "e">>, 0),
                 NodeConfig("F1", "field", <<"m", "a", "i", "z", "e">>, 3000)>>,
     weather |-> <<DayOn(20250115)>>],
    [nodes |-> <<NodeConfig("F2", "field", <<"W", "h", "e", "a", "t">>, 0)>>,
     weather |-> <<DayOn(20250401)>>] }

\* the dicts build_harvest_plan is called with, as the lists of their items:
\* up to one RunResult for each field id
ResultDicts ==
  { d \in UNION {[1..n -> FieldIds \X SampleRuns] : n \in 0..Cardinality(FieldIds)} :
      \A i, j \in DOMAIN d : i # j => d[i][1] # d[j][1] }

(***************************************************************************)
(* The scheduler and its callers                                           *)
(***************************************************************************)
InitHarvest ==
  /\ entry \in {"HarvestManager", "build_harvest_plan", "run_multi_field"}
  /\ pc = entry
  /\ scenario \in IF entry = "run_multi_field" THEN Scenarios ELSE {NoScenario}
  /\ zones = Layout
  /\ tasks = <<>>
  /\ calls = 0
  /\ called = NoCall
  /\ plan = <<>>
  /\ summary = <<>>
  /\ workers = <<>>
  /\ heap = <<>>
  /\ req = <<>>
  /\ payload = <<>>
  /\ field = <<>>
  /\ weather = <<>>
  /\ st = <<>>
  /\ series = <<>>
  /\ result = <<>>
  /\ response = <<>>
  /\ raised = NoError
  /\ earlier = <<>>

\* the variables of a single-field call, which the scheduler does not touch
single == <<entry, req, payload, field, weather, st, series, result, response, earlier,
           parallel>>

\* manager.register_field_result with the arguments build_harvest_plan takes
\* from a RunResult
RegisterFieldResult ==
  /\ pc = "HarvestManager"
  /\ calls < MaxCalls
  /\ \E fid \in FieldIds, res \in SampleRuns :
       LET last == res.series[Len(res.series)]
           m    == RegisterResult(HarvestManager(tasks, zones), fid, res)
       IN  /\ tasks' = m.tasks
           /\ zones' = m.zones
           /\ called' = [op |-> "register_field_result", field_id |-> fid,
                         crop |-> OrText(last.crop, "unknown"),
                         planned_date |-> res.harvest_date,
                         yield_t_ha |-> res.yield_t_ha,
                         maturity |-> MaturityOf(last), amount |-> last.stress_w]
  /\ calls' = calls + 1
  /\ UNCHANGED <<single, pc, raised, scenario, plan, summary>>

MarkCompleted ==
  /\ pc = "HarvestManager"
  /\ calls < MaxCalls
  /\ \E fid \in FieldIds, actual_yield \in ActualYields :
       LET m == mark_completed(HarvestManager(tasks, zones), fid, actual_yield)
       IN  /\ tasks' = m.tasks
           /\ zones' = m.zones
           /\ called' = [NoCall EXCEPT !.op = "mark_completed", !.field_id = fid,
                                       !.amount = actual_yield]
  /\ calls' = calls + 1
  /\ UNCHANGED <<single, pc, raised, scenario, plan, summary>>

PlanSchedule ==
  /\ pc = "HarvestManager"
  /\ calls < MaxCalls
  /\ \E storage_capacity_t \in StorageCapacities :
       /\ plan' = plan_schedule(HarvestManager(tasks, zones), storage_capacity_t)
       /\ called' = [NoCall EXCEPT !.op = "plan_schedule", !.amount = storage_capacity_t]
  /\ calls' = calls + 1
  /\ UNCHANGED <<single, pc, raised, scenario, tasks, zones, summary>>

SummarizePlan ==
  /\ pc = "HarvestManager"
  /\ calls < MaxCalls
  /\ summary' = <<summarize_plan(HarvestManager(tasks, zones))>>
  /\ called' = [NoCall EXCEPT !.op = "summarize_plan"]
  /\ calls' = calls + 1
  /\ UNCHANGED <<single, pc, raised, scenario, tasks, zones, plan>>

\* build_harvest_plan(results, layout, storage_capacity_t), the whole call
BuildHarvestPlan ==
  /\ pc = "build_harvest_plan"
  /\ \E results \in ResultDicts, storage_capacity_t \in StorageCapacities :
       LET built == build_harvest_plan(results, zones, storage_capacity_t)
       IN  /\ tasks' = built.fields
           /\ zones' = built.zones
           /\ summary' = <<built.summary>>
           /\ plan' = built.plan
           /\ calls' = Len(results)
           /\ called' = [NoCall EXCEPT !.op = "build_harvest_plan",
                                       !.amount = storage_capacity_t]
  /\ pc' = "done"
  /\ UNCHANGED <<single, raised, scenario>>

\* run_multi_field, lines 354-405: one pass of "for node in scenario.nodes"
RunMultiFieldNode ==
  /\ pc = "run_multi_field"
  /\ calls < Len(scenario.nodes)
  /\ LET node   == scenario.nodes[calls + 1]
         looked == get_crop_defaults(node.params.crop)
     IN  IF node.type # "field"
         THEN UNCHANGED <<pc, raised, tasks, zones, called>>
         ELSE IF looked.raised # ""
         THEN /\ raised' = [type |-> looked.raised, message |-> looked.message,
                            supported |-> looked.supported]
              /\ pc' = "raised"
              /\ UNCHANGED <<tasks, zones, called>>
         ELSE \E field_cfg \in {FieldConfig(node.id, DefaultSoil, looked.value[1],
                                            node.params.irrigation)} :
              \E res \in {run_field(field_cfg, scenario.weather)} :
              LET last     == res.series[Len(res.series)]
                  maturity == MaturityOf(last)
              IN  /\ zones' = update_zone_growth(zones, field_cfg.id, maturity, last.stress_w)
                  /\ tasks' = add_task(tasks, HarvestTask(field_cfg.id, field_cfg.crop.species,
                                                          res.harvest_date, res.yield_t_ha,
                                                          maturity))
                  /\ called' = [op |-> "run_multi_field", field_id |-> field_cfg.id,
                                crop |-> field_cfg.crop.species,
                                planned_date |-> res.harvest_date,
                                yield_t_ha |-> res.yield_t_ha,
                                maturity |-> maturity, amount |-> last.stress_w]
                  /\ UNCHANGED <<pc, raised>>
  /\ calls' = calls + 1
  /\ UNCHANGED <<single, scenario, plan, summary>>

\* run_multi_field, lines 407-416
RunMultiFieldReturn ==
  /\ pc = "run_multi_field"
  /\ calls = Len(scenario.nodes)
  /\ pc' = "done"
  /\ UNCHANGED <<single, raised, harvest>>

NextHarvest ==
  \/ RegisterFieldResult
  \/ MarkCompleted
  \/ PlanSchedule
  \/ SummarizePlan
  \/ BuildHarvestPlan
  \/ RunMultiFieldNode
  \/ RunMultiFieldReturn

SpecHarvest == InitHarvest /\ [][NextHarvest]_vars

Next ==
  \/ SimulatorRun
  \/ RunFieldStart
  \/ RunFieldDay
  \/ RunFieldReturn
  \/ SimulatorReturn

Spec == Init /\ [][Next]_vars

\* the caller of run_field calls it a second time, on the same weather list and
\* with the same crop and soil, as test_irrigation_effect_on_dry_spell does;
\* the result of the first call stays with the caller
RunFieldAgain ==
  /\ entry = "run_field"
  /\ pc = "done"
  /\ earlier = <<>>
  /\ earlier' = <<[field |-> field[1], result |-> result[1]]>>
  /\ \E irr \in Irrigations :
       field' = <<[field[1] EXCEPT !.management.irrigation_mm_day = irr]>>
  /\ pc' = "run_field"
  /\ UNCHANGED <<entry, req, payload, weather, st, series, result, response, raised>>
  /\ UNCHANGED <<harvest, parallel>>

NextTwice ==
  \/ Next
  \/ RunFieldAgain

SpecTwice == Init /\ [][NextTwice]_vars

(***************************************************************************)
(* Several fields at once: a caller that runs the body of run_multi_field's *)
(* loop for each field, interleaving the step_day calls of the fields; the *)
(* weather list, the layout and the planner are shared by all of them      *)
(***************************************************************************)
Workers == 1..2

\* the fields of the interleaved runs: either id, two crops, rainfed or irrigated
ParallelFields ==
  { FieldConfig(id, DefaultSoil, crop, irr) :
      id \in FieldIds, crop \in {maize_defaults, ThirstyCrop}, irr \in {0, 3000} }

\* the dry day and the wet day, in every order
ParallelWeather ==
  { w \in WeatherSeries :
      /\ Len(w) >= 1
      /\ \A i \in 1..Len(w) : w[i].date \in {20250401, 20250302} }

\* the run_field call of a field, before its first line
Worker(f) == [field |-> f, st |-> 0, series |-> <<>>, result |-> <<>>, pc |-> "run_field"]

InitParallel ==
  /\ entry = "parallel"
  /\ pc = "parallel"
  /\ weather \in ParallelWeather
  /\ workers \in [Workers -> {Worker(f) : f \in ParallelFields}]
  /\ heap = <<>>
  /\ zones = Layout
  /\ tasks = <<>>
  /\ scenario = NoScenario
  /\ calls = 0
  /\ called = NoCall
  /\ plan = <<>>
  /\ summary = <<>>
  /\ req = <<>>
  /\ payload = <<>>
  /\ field = <<>>
  /\ st = <<>>
  /\ series = <<>>
  /\ result = <<>>
  /\ response = <<>>
  /\ raised = NoError
  /\ earlier = <<>>

\* a variant in which every call gets the same object
NewRefShared(objects) == 1

\* FieldState(...) constructs a new object: a reference no other call holds
NewRef(objects) == Len(objects) + 1

Store(objects, ref, state) ==
  IF ref > Len(objects) THEN Append(objects, state) ELSE [objects EXCEPT ![ref] = state]

\* run_field, lines 308-309, of the i-th field
WorkerStart(i) ==
  /\ workers[i].pc = "run_field"
  /\ \E ref \in {NewRef(heap)} :
       /\ heap' = Store(heap, ref,
                        FieldState(weather[1].date,
                                   Min(120000, rootzone_capacity(workers[i].field.soil))))
       /\ workers' = [workers EXCEPT ![i].st = ref, ![i].series = <<>>, ![i].pc = "loop"]
  /\ UNCHANGED <<entry, req, payload, field, weather, pc, st, series, result, response, raised>>
  /\ UNCHANGED <<earlier, harvest>>

\* run_field, lines 311-333, of the i-th field: one pass of "for w in weather"
WorkerDay(i) ==
  /\ workers[i].pc = "loop"
  /\ \E w \in {weather[Len(workers[i].series) + 1]} :
     \E next \in {step_day(workers[i].field, heap[workers[i].st], w)} :
       /\ heap' = Store(heap, workers[i].st, next)
       /\ workers' = [workers EXCEPT
            ![i].series = AppendDay(@, DayResult(workers[i].field, next, w)),
            ![i].pc = IF Len(workers[i].series) + 1 = Len(weather) THEN "estimate" ELSE "loop"]
  /\ UNCHANGED <<entry, req, payload, field, weather, pc, st, series, result, response, raised>>
  /\ UNCHANGED <<earlier, harvest>>

\* run_field, lines 335-338, of the i-th field
WorkerReturn(i) ==
  /\ workers[i].pc = "estimate"
  /\ workers' = [workers EXCEPT
       ![i].result = <<RunResult(workers[i].field.id, workers[i].series,
                                 estimate_yield(workers[i].field, workers[i].series))>>,
       ![i].pc = "update_zone"]
  /\ UNCHANGED <<entry, req, payload, field, weather, pc, st, series, result, response, raised>>
  /\ UNCHANGED <<earlier, harvest, heap>>

\* run_multi_field, lines 390-393, for the i-th field
WorkerUpdateZone(i) ==
  /\ workers[i].pc = "update_zone"
  /\ \E last \in {workers[i].result[1].series[Len(workers[i].result[1].series)]} :
       zones' = update_zone_growth(zones, workers[i].field.id, MaturityOf(last), last.stress_w)
  /\ workers' = [workers EXCEPT ![i].pc = "add_task"]
  /\ UNCHANGED <<entry, req, payload, field, weather, pc, st, series, result, response, raised>>
  /\ UNCHANGED <<earlier, heap, tasks, scenario, calls, called, plan, summary>>

\* run_multi_field, lines 396-405, for the i-th field: planner.add_task as
\* one step
WorkerAddTask(i) ==
  /\ workers[i].pc = "add_task"
  /\ \E res \in {workers[i].result[1]} :
       tasks' = add_task(tasks, HarvestTask(workers[i].field.id, workers[i].field.crop.species,
                                            res.harvest_date, res.yield_t_ha,
                                            MaturityOf(res.series[Len(res.series)])))
  /\ workers' = [workers EXCEPT ![i].pc = "done"]
  /\ calls' = calls + 1
  /\ UNCHANGED <<entry, req, payload, field, weather, pc, st, series, result, response, raised>>
  /\ UNCHANGED <<earlier, heap, zones, scenario, called, plan, summary>>

NextParallel ==
  \/ \E i \in Workers : WorkerStart(i)
  \/ \E i \in Workers : WorkerDay(i)
  \/ \E i \in Workers : WorkerReturn(i)
  \/ \E i \in Workers : WorkerUpdateZone(i)
  \/ \E i \in Workers : WorkerAddTask(i)

SpecParallel == InitParallel /\ [][NextParallel]_vars

(***************************************************************************)
(* Properties                                                              *)
(***************************************************************************)
\* the state of every simulated day: the DayResults, and the FieldState once
\* at least one day has been stepped
Capacity == rootzone_capacity(field[1].soil)

LastStageIndex == Len(field[1].crop.stages) - 1

\* the first stage of the crop with this name
StageNamed(name) ==
  LET crop == field[1].crop
  IN  crop.stages[CHOOSE i \in 1..Len(crop.stages) :
                    /\ crop.stages[i].name = name
                    /\ \A j \in 1..(i - 1) : crop.stages[j].name # name]

\* C1: in every run_field run, the soil water starts at min(120, rootzone
\* capacity) and, after every step_day, lies between 0 and the root-zone
\* capacity (rain, irrigation and evapotranspiration being non-negative).
C1_SoilWaterWithinCapacity ==
  /\ (st # <<>> /\ series = <<>>) => st[1].soil_water_mm = Min(120000, Capacity)
  /\ st # <<>> => (0 <= st[1].soil_water_mm /\ st[1].soil_water_mm <= Capacity)
  /\ \A i \in 1..Len(series) :
       0 <= series[i].soil_water_mm /\ series[i].soil_water_mm <= Capacity

\* a run whose bucket was filled to the brim on one day and emptied on another
C1_Witness ==
  /\ Len(series) >= 2
  /\ \E i \in 1..Len(series) : series[i].soil_water_mm = Capacity
  /\ \E j \in 1..Len(series) : series[j].soil_water_mm = 0

\* C2: across a run_field series the stage index never decreases, never
\* exceeds len(stages) - 1 and grows by at most one per simulated day; a
\* stage whose thermal target is reached (and is not the last) is left that
\* day, by one stage only, however many later targets the day has passed.
C2_StageStep ==
  /\ (st = <<>> /\ st' # <<>>) => st'[1].stage_index = 0
  /\ (st # <<>> /\ st' # <<>>) =>
       LET a   == st[1].stage_index
           b   == st'[1].stage_index
           cur == StageAt(field[1].crop, a)
       IN  /\ b \in {a, a + 1}
           /\ b <= LastStageIndex
           /\ ( /\ st' # st
                /\ cur.gdd_target # None
                /\ st'[1].gdd_accum >= cur.gdd_target
                /\ a < LastStageIndex ) => b = a + 1

C2_StageAdvancesOneAtATime == [][C2_StageStep]_vars

\* the first day passed the thermal targets of the first three stages; the
\* index was 1 after that day and is 2 after the second day
C2_Witness ==
  /\ st # <<>>
  /\ Len(series) = 2
  /\ Len(field[1].crop.stages) >= 4
  /\ \A k \in 1..3 : /\ field[1].crop.stages[k].gdd_target # None
                     /\ series[1].gdd_progress >= field[1].crop.stages[k].gdd_target
  /\ series[1].stage = field[1].crop.stages[2].name
  /\ st[1].stage_index = 2

StressWithinBounds(d) ==
  /\ 1 <= d.stress_w /\ d.stress_w <= SC
  /\ 400 <= d.stress_n /\ d.stress_n <= SC

\* C3: after every step_day, 0.001 <= stress_w <= 1 (also on days without
\* potential transpiration) and 0.4 <= stress_n <= 1, and stress_n = 1 when the
\* nitrogen demand summed over the stages up to the current one is zero.
C3_StressRatiosBounded ==
  /\ \A i \in 1..Len(series) :
       /\ StressWithinBounds(series[i])
       /\ Demanded(StageNamed(series[i].stage), field[1].crop) = 0
            => series[i].stress_n = SC
  /\ (st # <<>> /\ series # <<>>) =>
       /\ StressWithinBounds(st[1])
       /\ Demanded(StageAt(field[1].crop, st[1].stage_index), field[1].crop) = 0
            => st[1].stress_n = SC

\* a run with a day on the 0.001 floor, a day strictly between the bounds,
\* and a day without evapotranspiration, hence without potential transpiration
C3_Witness ==
  /\ \E i \in 1..Len(series) : series[i].stress_w = 1
  /\ \E i \in 1..Len(series) : weather[i].et0 = 0 /\ series[i].stress_w = SC
  /\ \E i \in 1..Len(series) : 400 < series[i].stress_n /\ series[i].stress_n < SC

\* C4: dry-matter biomass is >= 0 on every day of a run_field series and never
\* decreases from one simulated day to the next.
C4_BiomassNonDecreasing ==
  /\ \A i \in 1..Len(series) :
       /\ series[i].biomass_dm_kg_ha >= 0
       /\ i > 1 => series[i].biomass_dm_kg_ha >= series[i - 1].biomass_dm_kg_ha
  /\ st # <<>> => st[1].biomass_dm_kg_ha >= 0

\* a run in which biomass grew on one day and stood still on the next
C4_Witness ==
  /\ Len(series) = 3
  /\ series[1].biomass_dm_kg_ha > 0
  /\ series[2].biomass_dm_kg_ha > series[1].biomass_dm_kg_ha
  /\ series[3].biomass_dm_kg_ha = series[2].biomass_dm_kg_ha

\* C5: the leaf-area index starts at 0.05 and, after every step_day, lies
\* between 0 and the lai_max of the crop being simulated.
C5_LaiWithinBounds ==
  /\ (st # <<>> /\ series = <<>>) => st[1].lai = 50
  /\ st # <<>> => (0 <= st[1].lai /\ st[1].lai <= field[1].crop.lai_max)
  /\ \A i \in 1..Len(series) :
       0 <= series[i].lai /\ series[i].lai <= field[1].crop.lai_max

\* a canopy that grew from 0.05 up to lai_max
C5_Witness ==
  /\ Len(series) >= 2
  /\ 50 < series[1].lai /\ series[1].lai < field[1].crop.lai_max
  /\ series[Len(series)].lai = field[1].crop.lai_max

\* C6: run_field on a weather series of n >= 1 days returns a RunResult with
\* the field's id and exactly n DayResults, the i-th carrying the date of the
\* i-th weather day.
C6_OneDayResultPerWeatherDay ==
  result # <<>> =>
    /\ weather # <<>>
    /\ result[1].field_id = field[1].id
    /\ Len(result[1].series) = Len(weather)
    /\ \A i \in 1..Len(weather) : result[1].series[i].date = weather[i].date

\* a returned run of three days with three different dates
C6_Witness ==
  /\ result # <<>>
  /\ Len(weather) = 3
  /\ Cardinality({weather[i].date : i \in 1..3}) = 3

\* C7: every completed run_field run returns a yield that is set and >= 0.
C7_YieldNonNegative ==
  result # <<>> => (result[1].yield_t_ha # None /\ result[1].yield_t_ha >= 0)

FlowerMin == StageMin(series, "flowering")

GrainMin == StageMin(series, "grainfill")

\* a returned run with biomass whose penalised harvest index is negative, so
\* that the yield rests on the 0.3 floor
C7_Witness ==
  /\ result # <<>>
  /\ result[1].series[Len(weather)].biomass_dm_kg_ha > 0
  /\ Mul(field[1].crop.hi, HiPenalty(field[1].crop, FlowerMin, GrainMin)) < 0
  /\ result[1].yield_t_ha > 0

WeatherDates == {weather[i].date : i \in 1..Len(weather)}

\* C8: the harvest_date of every RunResult is set and is the date of one of
\* the days of the input weather series.
C8_HarvestDateFromSeries ==
  result # <<>> =>
    (result[1].harvest_date # None /\ result[1].harvest_date \in WeatherDates)

\* a returned run whose harvest date is the date of a maturity or grain-fill
\* day before the last day, and differs from the date of the last day
C8_Witness ==
  /\ result # <<>>
  /\ MaturityIdx(result[1].series) < Len(weather)
  /\ result[1].harvest_date # weather[Len(weather)].date

\* C9: with an empty weather series the field simulator fails and produces
\* no RunResult: run_field raises before any day is simulated, Simulator.run
\* raises when the payload normalizes to zero days.
C9_EmptyWeatherFails ==
  /\ (entry = "run_field" /\ weather = <<>>) =>
       /\ st = <<>> /\ series = <<>> /\ result = <<>>
       /\ pc \in {"run_field", "raised"}
       /\ pc = "raised" => raised.type = "IndexError"
  /\ (entry = "Simulator.run" /\ _to_daily_weather(payload[1]) = <<>>) =>
       /\ field = <<>> /\ st = <<>> /\ series = <<>>
       /\ result = <<>> /\ response = <<>>
       /\ pc \in {"Simulator.run", "raised"}
       /\ pc = "raised" => raised.type = "ValueError"

\* run_field called with the empty list has raised
C9_Witness ==
  /\ entry = "run_field"
  /\ weather = <<>>
  /\ pc = "raised"
  /\ raised.type = "IndexError"

\* x spells the catalog key k, letter for letter, in any mix of cases
SameLetters(x, k) ==
  /\ Len(x) = Len(k)
  /\ \A i \in 1..Len(k) :
       \/ x[i] = k[i]
       \/ \E j \in 1..26 : UpperChars[j] = x[i] /\ LowerChars[j] = k[i]

\* typed is the key k in any mix of cases, with white space around it
Spells(typed, k) ==
  \E a \in 0..Len(typed) : \E b \in a..Len(typed) :
    /\ \A i \in 1..a : typed[i] \in Whitespace
    /\ \A i \in (b + 1)..Len(typed) : typed[i] \in Whitespace
    /\ SameLetters(SubSeq(typed, a + 1, b), k)

\* Simulator.run got past the weather check, so that it has looked the crop up
LookedUp ==
  /\ entry = "Simulator.run"
  /\ pc # "Simulator.run"
  /\ _to_daily_weather(payload[1]) # <<>>

\* C10: get_crop_defaults resolves a crop name to its CropParams whatever the
\* case of its letters and the spaces around it; for a name that is not in the
\* catalog it fails with an unsupported-crop error that lists the valid names,
\* and returns no crop.
C10_CropLookup ==
  LookedUp =>
    LET typed == req[1].crop
    IN  /\ \A k \in DOMAIN crop_map :
             Spells(typed, k) =>
               (raised = NoError /\ field # <<>> /\ field[1].crop = crop_map[k])
        /\ (\A k \in DOMAIN crop_map : ~Spells(typed, k)) =>
             /\ pc = "raised"
             /\ raised.type = "ValueError"
             /\ raised.message = "Unsupported crop"
             /\ {raised.supported[i] : i \in 1..Len(raised.supported)} = DOMAIN crop_map
             /\ Len(raised.supported) = Cardinality(DOMAIN crop_map)
             /\ field = <<>> /\ result = <<>> /\ response = <<>>

\* a name typed in capitals between spaces was resolved, and the run returned
C10_Witness ==
  /\ LookedUp
  /\ response # <<>>
  /\ req[1].crop # NormalizeName(req[1].crop)
  /\ lower(req[1].crop) # req[1].crop
  /\ strip(req[1].crop) # req[1].crop
  /\ field[1].crop = crop_map[NormalizeName(req[1].crop)]

(***************************************************************************)
(* Properties of the scheduler                                             *)
(***************************************************************************)
\* the step is one registration: register_field_result, or the planner.add_task
\* of run_multi_field
Registers == called'.op \in {"register_field_result", "run_multi_field"} /\ calls' = calls + 1

\* the task list holds a task for this (field_id, crop) pair
HasTask(planner_tasks, field_id, crop) ==
  \E i \in 1..Len(planner_tasks) :
    planner_tasks[i].field_id = field_id /\ planner_tasks[i].crop = crop

\* C11: registering a (field_id, crop) pair that already has a task leaves
\* the task list unchanged (same length, same order, every task with its
\* planned date, expected yield, maturity ratio and completion state),
\* whatever values the second registration carries.
C11_SecondRegistrationChangesNothing ==
  [][(Registers /\ HasTask(tasks, called'.field_id, called'.crop)) => tasks' = tasks]_vars

\* a registration carried a planned date and a yield that differ from those of
\* the task its pair has, so the task was there before and was kept
C11_Witness ==
  /\ called.op = "register_field_result"
  /\ \E i \in 1..Len(tasks) :
       /\ tasks[i].field_id = called.field_id
       /\ tasks[i].crop = called.crop
       /\ tasks[i].planned_date # called.planned_date
       /\ tasks[i].expected_yield_t_ha # called.yield_t_ha

\* the state is the one plan_schedule left: plan is its return value and
\* called.amount the storage capacity it was given
Planned == called.op \in {"plan_schedule", "build_harvest_plan"}

\* the expected yield of the task behind the k-th item of the plan
PlannedYield(k) ==
  LET i == CHOOSE n \in 1..Len(tasks) :
             tasks[n].field_id = plan[k].field_id /\ tasks[n].crop = plan[k].crop
  IN  tasks[i].expected_yield_t_ha

\* the capacity that remains once the first k items of the plan are stored
RemainingAfter(k) == called.amount - SumSeq([j \in 1..k |-> PlannedYield(j)])

\* C12: plan_schedule cuts the plan right after the first task that brings
\* the remaining capacity to zero or below: every task before the last planned
\* one leaves capacity, a plan that omits tasks ends with a task that leaves
\* none, and the planned yield exceeds the capacity by no more than the yield
\* of the last planned task.
C12_PlanCutAtCapacity ==
  Planned =>
    /\ Len(plan) <= Len(tasks)
    /\ \A k \in 1..(Len(plan) - 1) : RemainingAfter(k) > 0
    /\ Len(plan) < Len(tasks) => (plan # <<>> /\ RemainingAfter(Len(plan)) <= 0)
    /\ plan # <<>> => (0 - RemainingAfter(Len(plan))) <= PlannedYield(Len(plan))

\* a plan of two tasks or more was cut by a task that filled the storage to
\* the last tonne, and a task was left out
C12_Witness ==
  /\ Planned
  /\ Len(plan) >= 2
  /\ Len(plan) < Len(tasks)
  /\ RemainingAfter(Len(plan)) = 0
  /\ PlannedYield(Len(plan)) > 0

(***************************************************************************)
(* Properties of two run_field calls                                       *)
(***************************************************************************)
\* run_field has returned twice: earlier holds the first call, field and
\* result the second
RanTwice == earlier # <<>> /\ pc = "done"

\* the weather series has zero rain on every day
DrySpell == \A i \in 1..Len(weather) : weather[i].rain = 0

IrrigationOf(f) == f.management.irrigation_mm_day

C14_SameInputsSameResult ==
  (RanTwice /\ field[1] = earlier[1].field) =>
    /\ result[1].series = earlier[1].result.series
    /\ result[1].yield_t_ha = earlier[1].result.yield_t_ha
    /\ result[1].harvest_date = earlier[1].result.harvest_date
    /\ result[1].grade = earlier[1].result.grade

\* the second of two identical runs returned: several days, with water stress
\* and with nutrient uptake booked in the notes of its FieldState
C14_Witness ==
  /\ RanTwice
  /\ field[1] = earlier[1].field
  /\ Len(result[1].series) >= 2
  /\ Len(result[1].series) = Len(earlier[1].result.series)
  /\ \E i \in 1..Len(result[1].series) : result[1].series[i].stress_w < SC
  /\ DOMAIN st[1].notes # {}
  /\ result[1].yield_t_ha > 0

\* the step is one mark_completed call
MarksCompleted == called'.op = "mark_completed" /\ calls' = calls + 1

\* the position of the first task of the field in the task list
FirstTaskOf(field_id) ==
  CHOOSE i \in 1..Len(tasks) :
    /\ tasks[i].field_id = field_id
    /\ \A j \in 1..(i - 1) : tasks[j].field_id # field_id

\* C15: mark_completed(field_id, actual_yield) sets the completion flag and
\* the actual yield on the task matching field_id (the first one in the list)
\* and nothing else in the task list, and switches the colour of the field's
\* zone to the harvested colour; when no task matches, the task list and the
\* layout are left unchanged.
C15_MarkCompleted ==
  [][MarksCompleted =>
       LET fid == called'.field_id
       IN  IF \A i \in 1..Len(tasks) : tasks[i].field_id # fid
           THEN tasks' = tasks /\ zones' = zones
           ELSE /\ tasks' = [tasks EXCEPT ![FirstTaskOf(fid)] =
                               [@ EXCEPT !.completed = TRUE,
                                         !.actual_yield_t_ha = <<called'.amount>>]]
                /\ Len(zones') = Len(zones)
                /\ \A z \in 1..Len(zones) :
                     zones'[z] = IF zones[z].id = fid
                                 THEN [zones[z] EXCEPT !.color = "#8d6e63"]
                                 ELSE zones[z]]_vars

\* a task of the field was completed with the reported yield, the zone of the
\* field shows the harvested colour, and a second task of the same field is
\* still pending
C15_Witness ==
  /\ called.op = "mark_completed"
  /\ \E i \in 1..Len(tasks) :
       /\ tasks[i].field_id = called.field_id
       /\ tasks[i].completed
       /\ tasks[i].actual_yield_t_ha = <<called.amount>>
       /\ \E j \in (i + 1)..Len(tasks) :
            tasks[j].field_id = called.field_id /\ ~tasks[j].completed
  /\ \E z \in 1..Len(zones) : zones[z].id = called.field_id /\ zones[z].color = "#8d6e63"

\* the state is the one summarize_plan left: summary holds its return value
Summarized == called.op \in {"summarize_plan", "build_harvest_plan"}

\* the sum of the maturity ratios of all tasks
MaturitySum == SumSeq([i \in 1..Len(tasks) |-> tasks[i].maturity_ratio])

CountsAgree ==
  /\ summary[1].total_fields = Len(tasks)
  /\ summary[1].pending + summary[1].completed = summary[1].total_fields
  /\ summary[1].completed = Cardinality({i \in 1..Len(tasks) : tasks[i].completed})

\* the statement of C16 as it was made: the counts, and average_maturity is
\* the mean maturity ratio, 0 without tasks
C16_AverageIsTheMean ==
  Summarized =>
    /\ CountsAgree
    /\ summary[1].average_maturity * Max(1, Len(tasks)) = MaturitySum

\* C16 (amended): after any sequence of registrations and completions,
\* summarize reports total_fields = number of tasks, pending + completed =
\* total_fields, and average_maturity = the mean maturity ratio over all tasks
\* rounded to two decimals, which is 0 when there are no tasks.
C16_AverageIsTheRoundedMean ==
  Summarized =>
    LET n   == Max(1, Len(tasks))
        avg == summary[1].average_maturity
        off == avg * n - MaturitySum
    IN  /\ CountsAgree
        /\ avg % 10 = 0
        /\ 2 * off <= 10 * n
        /\ 2 * off >= 0 - 10 * n
        /\ tasks = <<>> => avg = 0

\* a summary over pending and completed tasks whose mean maturity has more
\* than two decimals
C16_Witness ==
  /\ Summarized
  /\ summary[1].pending > 0
  /\ summary[1].completed > 0
  /\ Len(tasks) >= 2
  /\ summary[1].average_maturity * Len(tasks) # MaturitySum
  /\ summary[1].average_maturity > 0

\* the position in the task list of the task behind the k-th item of the plan
PlannedTask(k) ==
  CHOOSE n \in 1..Len(tasks) :
    tasks[n].field_id = plan[k].field_id /\ tasks[n].crop = plan[k].crop

\* task n comes before task m when the tasks are sorted by planned date, the
\* registration order deciding between equal dates
SortsBefore(n, m) ==
  \/ tasks[n].planned_date < tasks[m].planned_date
  \/ tasks[n].planned_date = tasks[m].planned_date /\ n < m

\* C17: the items returned by plan_schedule are a prefix of the tasks sorted
\* by planned date ascending, with tasks of equal planned date kept in their
\* original registration order.
C17_PlanIsPrefixOfSortedTasks ==
  Planned =>
    /\ \A k \in 1..Len(plan) :
         /\ \E n \in 1..Len(tasks) :
              tasks[n].field_id = plan[k].field_id /\ tasks[n].crop = plan[k].crop
         /\ plan[k].planned_date = tasks[PlannedTask(k)].planned_date
         /\ plan[k].maturity_ratio = tasks[PlannedTask(k)].maturity_ratio
    /\ \A k, l \in 1..Len(plan) : k < l => SortsBefore(PlannedTask(k), PlannedTask(l))
    /\ \A n \in 1..Len(tasks) :
         (\A k \in 1..Len(plan) : PlannedTask(k) # n) =>
           \A k \in 1..Len(plan) : SortsBefore(PlannedTask(k), n)

\* a plan of three tasks that is not in registration order and holds two
\* tasks of one planned date
C17_Witness ==
  /\ Planned
  /\ Len(plan) >= 3
  /\ \E k, l \in 1..Len(plan) : k < l /\ PlannedTask(k) > PlannedTask(l)
  /\ \E k \in 1..(Len(plan) - 1) : plan[k].planned_date = plan[k + 1].planned_date

C19_TaskLifecycle ==
  [][/\ Len(tasks') >= Len(tasks)
     /\ \A i \in 1..Len(tasks) :
          /\ tasks'[i].field_id = tasks[i].field_id
          /\ tasks'[i].crop = tasks[i].crop
          /\ tasks[i].completed => tasks'[i].completed
          /\ tasks'[i] # tasks[i] => called'.op = "mark_completed"
     /\ called'.op \in {"plan_schedule", "summarize_plan"} => tasks' = tasks]_vars

\* a completed task was registered again, with another planned date and
\* yield, and is still completed with the date it had
C19_Witness ==
  /\ called.op = "register_field_result"
  /\ \E i \in 1..Len(tasks) :
       /\ tasks[i].field_id = called.field_id
       /\ tasks[i].crop = called.crop
       /\ tasks[i].completed
       /\ tasks[i].actual_yield_t_ha # <<>>
       /\ tasks[i].planned_date # called.planned_date

(***************************************************************************)
(* Properties of the phenology clock                                       *)
(***************************************************************************)
\* the thermal time of the first n days of the weather list
RECURSIVE ThermalTime(_)
ThermalTime(n) ==
  IF n = 0 THEN 0
  ELSE ThermalTime(n - 1)
         + Max(0, ((weather[n].tmin + weather[n].tmax) \div 2) - field[1].crop.tb)

\* the step simulates the n-th day: the accumulators are the day count and
\* the thermal time so far, and the stage index grows by one exactly when the
\* stage of that day is not the last and its target is reached
C20_DayStep ==
  (pc = "loop" /\ series' # series) =>
    LET n       == Len(series')
        a       == st[1].stage_index
        cur     == field[1].crop.stages[a + 1]
        gdd     == ThermalTime(n)
        reached == IF cur.gdd_target # None THEN gdd >= cur.gdd_target
                   ELSE IF cur.dap_target # None THEN n >= cur.dap_target
                   ELSE FALSE
    IN  /\ st'[1].dap = n
        /\ st'[1].gdd_accum = gdd
        /\ st'[1].stage_index =
             IF a < Len(field[1].crop.stages) - 1 /\ reached THEN a + 1 ELSE a

\* C20: at the end of each step_day, with dap the number of days simulated so
\* far and gdd_accum the running sum of max(0, (tmin+tmax)/2 - tb), the stage
\* index grows by exactly one if and only if the current stage is not the last
\* and its target is reached: gdd_accum >= gdd_target when gdd_target is set
\* (the day-count target is then ignored), otherwise dap >= dap_target when
\* dap_target is set; a stage with neither target never advances.
C20_StageAdvancesOnTarget == [][C20_DayStep]_vars

\* the first stage has both targets; the day count has reached its target,
\* the thermal time has not, and the stage has not advanced
C20_Witness ==
  /\ st # <<>>
  /\ series # <<>>
  /\ st[1].stage_index = 0
  /\ field[1].crop.stages[1].gdd_target # None
  /\ field[1].crop.stages[1].dap_target # None
  /\ st[1].dap >= field[1].crop.stages[1].dap_target
  /\ st[1].gdd_accum < field[1].crop.stages[1].gdd_target

(***************************************************************************)
(* Properties of the order of the daily processes                          *)
(***************************************************************************)
\* the step simulates one day
DayStep == pc = "loop" /\ series' # series

\* the weather of the day the step simulates
Today == weather[Len(series) + 1]

\* the stage that is active when the day starts
StageAtDawn == field[1].crop.stages[st[1].stage_index + 1]

\* the FieldState after the water balance of the day, run with this stage's kc
WateredWith(stage) ==
  _water_balance(st[1], field[1].soil,
                 Today.rain + field[1].management.irrigation_mm_day,
                 etc_from_kc(Et0(Today), stage.kc))

\* the day's processes, each run with the coefficients of this stage, give the
\* soil water, stress ratios, nutrient stocks, LAI and biomass of the new state
DayRunsWith(stage) ==
  LET watered == WateredWith(stage)
      fed     == _nutrients(watered, stage, field[1].crop)
      lai     == NewLai(fed, stage, field[1].crop)
  IN  /\ st'[1].soil_water_mm = watered.soil_water_mm
      /\ st'[1].stress_w = watered.stress_w
      /\ st'[1].stress_n = fed.stress_n
      /\ st'[1].n_stock_kg_ha = fed.n_stock_kg_ha
      /\ st'[1].p_stock_kg_ha = fed.p_stock_kg_ha
      /\ st'[1].k_stock_kg_ha = fed.k_stock_kg_ha
      /\ st'[1].notes = fed.notes
      /\ st'[1].lai = lai
      /\ st'[1].biomass_dm_kg_ha =
           st[1].biomass_dm_kg_ha + BiomassGain([fed EXCEPT !.lai = lai], stage, Today.rad)

\* C21: within one step_day, the water balance, nutrient uptake, LAI growth
\* and biomass gain all use the kc, nuptake_target, lai_gain and rue of the
\* stage that was active at the start of that day; the stage-advance check
\* runs last, so a new stage's coefficients first take effect on the
\* following day.
C21_DayUsesStageAtDawn == [][DayStep => DayRunsWith(StageAtDawn)]_vars

\* the stage advanced on the first day, to a stage with another kc, rue,
\* lai_gain and nutrient demand, and on a day with growth; a second day ran
\* in the new stage
C21_Witness ==
  /\ Len(series) >= 2
  /\ series[1].stage = field[1].crop.stages[2].name
  /\ series[1].stage # field[1].crop.stages[1].name
  /\ field[1].crop.stages[1].kc # field[1].crop.stages[2].kc
  /\ field[1].crop.stages[1].rue # field[1].crop.stages[2].rue
  /\ field[1].crop.stages[1].lai_gain # field[1].crop.stages[2].lai_gain
  /\ field[1].crop.stages[1].nuptake_target # field[1].crop.stages[2].nuptake_target
  /\ series[1].biomass_dm_kg_ha > 0
  /\ series[2].biomass_dm_kg_ha > series[1].biomass_dm_kg_ha

(***************************************************************************)
(* Properties of the yield estimator                                       *)
(***************************************************************************)
\* the days after the first that are recorded in a maturity or grain-fill stage
RipeDays ==
  {i \in 2..Len(result[1].series) : result[1].series[i].stage \in {"maturity", "grainfill"}}

LowestStress(stage_name) ==
  LET vals == {result[1].series[i].stress_w :
                 i \in {k \in 1..Len(result[1].series) :
                          result[1].series[k].stage = stage_name}}
  IN  IF vals = {} THEN SC ELSE CHOOSE v \in vals : \A u \in vals : v <= u

\* hi x (1 - sens[flower_water] x (1 - flower_min)
\*         - sens[grainfill_water] x (1 - grain_min))
PenalisedHi ==
  LET sens == field[1].crop.stress_sensitivity
  IN  (field[1].crop.hi
         * (SC - (sens.flower_water * (SC - LowestStress("flowering"))) \div SC
               - (sens.grainfill_water * (SC - LowestStress("grainfill"))) \div SC)) \div SC

EffectiveHi ==
  IF PenalisedHi < 300 THEN 300 ELSE IF PenalisedHi > SC THEN SC ELSE PenalisedHi

\* C23: estimate_yield computes the effective harvest index as
\* hi x (1 - sens[flower_water] x (1 - flower_min)
\*         - sens[grainfill_water] x (1 - grain_min)) clamped to [0.3, 1.0],
\* where flower_min and grain_min are the minimum water stress over the days
\* recorded in the flowering and grainfill stages (1.0 when the stage never
\* occurred), and the final yield equals the last day's biomass x effective
\* harvest index / 1000.
C23_YieldFromPenalisedHarvestIndex ==
  result # <<>> =>
    result[1].yield_t_ha =
      (result[1].series[Len(result[1].series)].biomass_dm_kg_ha * EffectiveHi) \div SC

\* a run with water stress in both the flowering and the grain-fill days,
\* whose penalised harvest index lies inside the clamp, and with biomass
C23_Witness ==
  /\ result # <<>>
  /\ LowestStress("flowering") < SC
  /\ LowestStress("grainfill") < SC
  /\ 300 < PenalisedHi
  /\ PenalisedHi < field[1].crop.hi
  /\ result[1].yield_t_ha > 0

(***************************************************************************)
(* Properties of the nutrient tracker                                      *)
(***************************************************************************)
\* what the notes of a FieldState book for a nutrient in a stage
Booked(state, key, stage_name) ==
  IF <<key, "taken", stage_name>> \in DOMAIN state.notes
  THEN state.notes[<<key, "taken", stage_name>>]
  ELSE 0

\* the uptake of the day for the item-th nutrient the stage at dawn demands
C24_Uptake(item) ==
  LET key    == StageAtDawn.nuptake_target[item][1]
      target == StageAtDawn.nuptake_target[item][2]
      before == Booked(st[1], key, StageAtDawn.name)
      after  == Booked(st'[1], key, StageAtDawn.name)
      rest   == IF target > before THEN target - before ELSE 0
  IN  /\ after - before = ((IF rest < 8000 THEN rest ELSE 8000) * st'[1].stress_w) \div SC
      /\ after - before <= 8000
      /\ after - before >= 0
      /\ after <= target

\* C24: for every nutrient demanded by a stage, the daily uptake is
\* min(8, remaining stage demand) x water-stress ratio, so on every day the
\* uptake is at most 8 and the cumulative amount booked for that
\* (nutrient, stage) never exceeds the stage's nuptake_target, however many
\* days the crop stays in the stage.
C24_UptakeCappedByDemand ==
  [][DayStep => \A item \in 1..Len(StageAtDawn.nuptake_target) : C24_Uptake(item)]_vars

\* the crop is in its first stage for the third day; the demand of that stage
\* for a nutrient was booked in full before the last day, and the last day
\* took nothing more
C24_Witness ==
  /\ Len(series) >= 3
  /\ st[1].stage_index = 0
  /\ \E item \in 1..Len(field[1].crop.stages[1].nuptake_target) :
       LET key    == field[1].crop.stages[1].nuptake_target[item][1]
           target == field[1].crop.stages[1].nuptake_target[item][2]
       IN  /\ target > 0
           /\ Booked(st[1], key, field[1].crop.stages[1].name) = target
           /\ key = "P"
           /\ series[1].p_stock_kg_ha < target
           /\ series[2].p_stock_kg_ha = target
           /\ series[3].p_stock_kg_ha = target

(***************************************************************************)
(* Properties of several fields run at once                                *)
(***************************************************************************)
\* the i-th field as run_field alone would simulate it
Alone(i) == run_field(workers[i].field, weather)

\* what the i-th run has so far is what the run alone has at that point
C25_AsAlone(i) ==
  /\ workers[i].series = SubSeq(Alone(i).series, 1, Len(workers[i].series))
  /\ workers[i].result # <<>> => workers[i].result[1] = Alone(i)

\* a step leaves the weather list and every FieldConfig (crop parameters and
\* soil profile included) as they were
C25_ReadsOnly ==
  /\ weather' = weather
  /\ \A i \in Workers : workers'[i].field = workers[i].field

\* C25: fields share no mutable state: the RunResult of each field depends
\* only on its own FieldConfig and the weather series, so simulating several
\* fields in any order, or interleaving their step_day calls, gives the same
\* per-field results as simulating each alone, and run_field never modifies
\* the weather series, crop parameters or soil profile it reads.
C25_FieldsRunIndependently ==
  /\ [](\A i \in Workers : C25_AsAlone(i))
  /\ [][C25_ReadsOnly]_vars

\* the second field's run began first and is between two days; the first
\* field's run, on another FieldConfig, began after it and has returned
C25_Witness ==
  /\ workers # <<>>
  /\ workers[1].field # workers[2].field
  /\ workers[2].st = 1
  /\ workers[1].st = 2
  /\ workers[2].pc = "loop"
  /\ Len(workers[2].series) >= 1
  /\ workers[1].result # <<>>
  /\ workers[1].result[1].series # SubSeq(Alone(2).series, 1, Len(workers[1].result[1].series))

\* the (field_id, crop) pair of a task
PairOf(task) == <<task.field_id, task.crop>>

\* the pairs whose add_task call has run
RegisteredPairs ==
  { <<workers[i].field.id, workers[i].field.crop.species>> :
      i \in {k \in Workers : workers[k].pc = "done"} }

\* C26: when fields are simulated in parallel and their registrations into the
\* shared scheduler are serialized (each add_task runs atomically), then under
\* every interleaving the task list ends with exactly one task for each
\* distinct (field_id, crop) pair registered and never holds two tasks with the
\* same pair.
C26_OneTaskPerPair ==
  /\ \A i, j \in 1..Len(tasks) : i # j => PairOf(tasks[i]) # PairOf(tasks[j])
  /\ {PairOf(tasks[i]) : i \in 1..Len(tasks)} = RegisteredPairs
  /\ Len(tasks) = Cardinality(RegisteredPairs)

\* both runs have registered; they are of the same field and crop with
\* different yields, and the one task is that of the second run, which
\* registered first
C26_Witness ==
  /\ workers # <<>>
  /\ \A i \in Workers : workers[i].pc = "done"
  /\ PairOf(HarvestTask(workers[1].field.id, workers[1].field.crop.species, None, 0, 0))
       = PairOf(HarvestTask(workers[2].field.id, workers[2].field.crop.species, None, 0, 0))
  /\ workers[1].result[1].yield_t_ha # workers[2].result[1].yield_t_ha
  /\ Len(tasks) = 1
  /\ tasks[1].expected_yield_t_ha = workers[2].result[1].yield_t_ha

\* the step is one register_field_result call for a pair that has a task
RegistersAgain ==
  /\ called'.op = "register_field_result"
  /\ calls' = calls + 1
  /\ HasTask(tasks, called'.field_id, called'.crop)

\* the colour of a zone for a maturity ratio and a water stress
GrowthColour(maturity, water_stress) ==
  IF water_stress < 600 THEN "#8b4513"
  ELSE IF maturity < 300 THEN "#66bb6a"
  ELSE IF maturity < 700 THEN "#fbc02d"
  ELSE "#e53935"

\* C27: register_field_result for a (field_id, crop) pair that already has a
\* task still rewrites the maturity ratio and colour of the layout zone with
\* that id although the task list is unchanged; in particular, after
\* mark_completed has set the zone to the harvested colour, a repeated
\* registration replaces it with a maturity/stress colour while the task stays
\* completed.
C27_RepeatedRegistrationRecolours ==
  [][RegistersAgain =>
       /\ tasks' = tasks
       /\ Len(zones') = Len(zones)
       /\ \A z \in 1..Len(zones) :
            zones'[z] = IF zones[z].id = called'.field_id
                        THEN [zones[z] EXCEPT
                                !.maturity_ratio = called'.maturity,
                                !.color = GrowthColour(called'.maturity, called'.amount)]
                        ELSE zones[z]]_vars

\* the last call registered a pair whose task is completed, with a maturity
\* other than the task's, and the zone of the field has that maturity and a
\* colour other than the harvested one
C27_Witness ==
  /\ called.op = "register_field_result"
  /\ \E i \in 1..Len(tasks) :
       /\ tasks[i].field_id = called.field_id
       /\ tasks[i].crop = called.crop
       /\ tasks[i].completed
       /\ tasks[i].maturity_ratio # called.maturity
  /\ \E z \in 1..Len(zones) :
       /\ zones[z].id = called.field_id
       /\ zones[z].maturity_ratio = called.maturity
       /\ zones[z].color # "#8d6e63"

\* C28: mark_completed selects the first task in registration order whose
\* field_id matches and ignores the crop: when two tasks share a field_id with
\* different crops, every mark_completed call for that id updates only the
\* earlier task, so the later task remains pending after any sequence of
\* scheduler operations.
C28_LaterTaskStaysPending ==
  \A i, j \in 1..Len(tasks) :
    (i < j /\ tasks[i].field_id = tasks[j].field_id) =>
      /\ tasks[i].crop # tasks[j].crop
      /\ ~tasks[j].completed
      /\ tasks[j].actual_yield_t_ha = <<>>

\* the last of four calls was a mark_completed for a field with two tasks: the
\* earlier task is completed with the reported yield, the later one is pending
C28_Witness ==
  /\ called.op = "mark_completed"
  /\ calls = 4
  /\ Len(tasks) = 2
  /\ tasks[1].field_id = called.field_id
  /\ tasks[2].field_id = called.field_id
  /\ tasks[1].completed
  /\ tasks[1].actual_yield_t_ha = <<called.amount>>
  /\ ~tasks[2].completed

\* the notes entries "<nutrient>_taken_<stage>" of a nutrient
EntriesOf(notes, nutrient) ==
  {k \in DOMAIN notes : k[1] = nutrient /\ k[2] = "taken"}

RECURSIVE SumOfEntries(_, _)
SumOfEntries(notes, keys) ==
  IF keys = {} THEN 0
  ELSE LET k == CHOOSE x \in keys : TRUE
       IN  notes[k] + SumOfEntries(notes, keys \ {k})

\* the stocks a DayResult or a FieldState records
Stocks(r) == <<r.n_stock_kg_ha, r.p_stock_kg_ha, r.k_stock_kg_ha>>

\* C29: after any number of step_day calls from the initial FieldState, for a
\* crop with distinct stage names and nutrient keys N, P and K, each nutrient
\* stock equals the sum of that nutrient's per-stage bookkeeping entries
\* "<nutrient>_taken_<stage>", and no nutrient stock ever decreases.
C29_StocksAreTheBookedSums ==
  st # <<>> =>
    /\ Stocks(st[1]) = <<SumOfEntries(st[1].notes, EntriesOf(st[1].notes, "N")),
                         SumOfEntries(st[1].notes, EntriesOf(st[1].notes, "P")),
                         SumOfEntries(st[1].notes, EntriesOf(st[1].notes, "K"))>>
    /\ \A day \in 1..Len(series) : \A n \in 1..3 :
         /\ Stocks(series[day])[n] >= (IF day = 1 THEN 0 ELSE Stocks(series[day - 1])[n])
         /\ day = Len(series) => Stocks(series[day])[n] = Stocks(st[1])[n]

\* nitrogen is booked for two stages, something for each, and the stock grew
\* on each of three days
C29_Witness ==
  /\ Len(series) = 3
  /\ \E k1, k2 \in EntriesOf(st[1].notes, "N") :
       k1 # k2 /\ st[1].notes[k1] > 0 /\ st[1].notes[k2] > 0
  /\ 0 < series[1].n_stock_kg_ha
  /\ series[1].n_stock_kg_ha < series[2].n_stock_kg_ha
  /\ series[2].n_stock_kg_ha < series[3].n_stock_kg_ha

(***************************************************************************)
(* Properties of the stage a day is recorded in                            *)
(***************************************************************************)
\* the stage the day-th day of the returned series began in: the stage the
\* day before was recorded in, the first stage on the first day
DawnStageOf(day) ==
  IF day = 1 THEN field[1].crop.stages[1].name ELSE result[1].series[day - 1].stage

\* the days of the returned series on which the stage advanced into the
\* flowering or the grain-fill stage
TransitionDays ==
  {day \in 1..Len(result[1].series) :
     /\ result[1].series[day].stage \in {"flowering", "grainfill"}
     /\ result[1].series[day].stage # DawnStageOf(day)}

\* the effective harvest index if the water stress of this day were the only
\* stress of its recorded stage: hi x (1 - sens x (1 - stress_w)) in [0.3, 1.0]
HiCappedBy(day) ==
  LET sens == IF result[1].series[day].stage = "flowering"
              THEN field[1].crop.stress_sensitivity.flower_water
              ELSE field[1].crop.stress_sensitivity.grainfill_water
      hi   == (field[1].crop.hi
                 * (SC - (sens * (SC - result[1].series[day].stress_w)) \div SC)) \div SC
  IN  IF hi < 300 THEN 300 ELSE IF hi > SC THEN SC ELSE hi

\* the day's DayResult names the stage after the advance check, and on a day
\* the stage advances that is the new stage while the day ran with the old one
C30_RecordsStageAfterAdvance ==
  /\ series'[Len(series')].stage = field[1].crop.stages[st'[1].stage_index + 1].name
  /\ st'[1].stage_index # st[1].stage_index =>
       /\ series'[Len(series')].stage # StageAtDawn.name
       /\ DayRunsWith(StageAtDawn)
       /\ series'[Len(series')].stress_w = WateredWith(StageAtDawn).stress_w

\* C30: the stage name stored in a day's DayResult is the stage after that
\* day's stage-advance check: on a day where the stage advances, the DayResult
\* carries the new stage's name although that day's water stress, LAI and
\* biomass were computed with the previous stage's coefficients, so the
\* flowering and grainfill stress minima used by estimate_yield include the
\* transition day's values.
C30_TransitionDayCountsForNewStage ==
  /\ [][DayStep => C30_RecordsStageAfterAdvance]_vars
  /\ [](result # <<>> =>
          \A day \in TransitionDays :
            /\ LowestStress(result[1].series[day].stage) <= result[1].series[day].stress_w
            /\ result[1].yield_t_ha <=
                 (result[1].series[Len(result[1].series)].biomass_dm_kg_ha
                    * HiCappedBy(day)) \div SC)

\* the stage advanced into grain filling on a day under water stress; that
\* day's stress is the lowest recorded in grain filling and cuts the harvest
\* index, inside the clamp, and so the yield
C30_Witness ==
  /\ result # <<>>
  /\ \E day \in TransitionDays :
       /\ result[1].series[day].stage = "grainfill"
       /\ DawnStageOf(day) = "flowering"
       /\ result[1].series[day].stress_w < SC
       /\ LowestStress("grainfill") = result[1].series[day].stress_w
       /\ 300 < HiCappedBy(day)
       /\ HiCappedBy(day) < field[1].crop.hi
  /\ result[1].yield_t_ha > 0
====
